---- MODULE Spec2Model ----
(***************************************************************************)
(* Flammable: snapshot storage (snapshot.py) and snapshot identity         *)
(* allocation (experiment.py).                                             *)
(*                                                                         *)
(* A Snapshot handle is a Python object bound to a snapshot directory.     *)
(* Several handles (possibly in several processes) may be bound to the     *)
(* same directory.  The directory holds the metadata document              *)
(* snapshot.json and asset files.  The four bucket dictionaries of a       *)
(* handle are Python objects: a SnapshotView keeps a reference to the      *)
(* dictionary object it was given, so object identity is modelled with a   *)
(* heap of dictionaries addressed by <<handle, bucket, generation>>.       *)
(***************************************************************************)
EXTENDS Integers, Sequences, FiniteSets, TLC

\* ------------------------------------------------------------------ bounds
\* Number of operations started in one behaviour.
MaxOps == 4

\* ------------------------------------------------------------ input domains
Handles == {"h1", "h2"}
\* The handle returned by Snapshot.create; the others load the directory.
Creator == "h1"
Keys == {"k"}
\* "tensor" stands for a value json.dump cannot encode.
Atoms == {"x", "tensor"}
Assets == {"m1"}
\* The DummySnapshot a Task holds when no experiment is attached.
Dummies == {"d"}
Objects == Handles \cup Dummies
Bools == {TRUE, FALSE}
\* Dictionary keys that are Python ints, and their decimal text.
IntKeys == {"#1"}
IntText == [k \in IntKeys |-> "1"]
\* Names given to store() and append() by the single writer of SpecWriter.
Names == Keys \cup IntKeys
\* File names given to register_model_file() by that writer.
Filenames == {"m1", "m2"}

\* Largest number random.randint is let to draw (the code draws below B^N).
MaxDraw == 1
MaxNumber == 30
\* Commits the global repository can hold.
MaxCommits == 2
MaxLibraries == 2

\* Experiment instances opened on one experiment directory.
Instances == {"e1", "e2"}
\* The instance returned by Experiment.new.
Founder == "e1"
Messages == {"initial", "tuned"}
\* Names of folders of the storage path.
ExpNames == {"mnist", "sandbox"}
\* Paths of the local directory, as sequences of pieces so that
\* str.startswith is the prefix relation: the script the user runs, another
\* source file, a byte-code file and a file whose name begins with ".git".
Script == <<"run.py">>
Util == <<"util.py">>
Cache == <<"__pycache__", "/run.pyc">>
Ignore == <<".git", "ignore">>
Paths == {Script, Util, Cache, Ignore}
\* The entry of os.listdir(local_dir) that holds the path.
Item == [p \in Paths |-> IF p = Cache THEN <<"__pycache__">> ELSE p]
Times == {"20190926-123819"}
CallFile == "run.py"

\* -------------------------------------------------------- program constants
\* generate_id: base and number of digits.
B == 26
N == 5
Letters == <<"a", "b", "c", "d", "e", "f", "g", "h", "i", "j", "k", "l", "m",
             "n", "o", "p", "q", "r", "s", "t", "u", "v", "w", "x", "y", "z">>
DataFile == "snapshot.json"
EXCLUDE == {<<".git">>, <<"__pycache__">>}
Buckets == {"train_data", "val_data", "test_data", "custom_data"}
ImmutableKeys == {"uid", "commit_sha", "timestamp", "filename", "comment"}
MutableKeys == Buckets \cup {"model_files"}

\* Arguments a parent passes to Snapshot.create.
CreateArgs ==
  { [uid |-> "aaaaa", commit_sha |-> "c1", timestamp |-> "t1",
     filename |-> "run.py", comment |-> "initial"],
    [uid |-> "aaaab", commit_sha |-> "c2", timestamp |-> "t2",
     filename |-> "run.py", comment |-> "second"] }

\* The immutable entries as __init__ leaves them.
NoneFields ==
  [uid |-> "None", commit_sha |-> "None", timestamp |-> "None",
   filename |-> "None", comment |-> "None"]

EmptyDict == << >>

VARIABLES
  root,         \* the snapshot directory root_path exists
  dir,          \* names of the files present in the snapshot directory
  disk,         \* content of snapshot.json: [valid, data]
  live,         \* live[h]: handle h has been constructed
  imm,          \* imm[h]: the five immutable entries of handle h
  gen,          \* gen[h]: generation of the bucket objects bound to h's attributes
  heap,         \* heap[<<h, b, g>>]: a dictionary object
  model_files,  \* model_files[h]: list of registered model files
  views,        \* views[h]: the SnapshotView object held by the process of h
  active,       \* active[h]: control is inside the with-block of views[h]
  pc,           \* pc[h]: position of h inside reset()
  pending,      \* pending[h]: directory entries reset() has still to remove
  written,      \* written[h]: what views[h] wrote in its current scope (history)
  known,        \* known[h]: the document as h last read or wrote it (history)
  origin,       \* the immutable entries given to create (history)
  quiet,        \* consecutive completed resets of one handle (history)
  entry,        \* entry[h]: the immutable entries of h when its reset() began (history)
  last,         \* the operation executed last (history)
  ops,          \* operations started so far
  \* --- experiment.py: one experiment directory, several Experiment instances
  repo,         \* commits of the global repository, latest first
  remotes,      \* remotes of the global repository
  local_git,    \* who made the repository of the local directory: none, user, init
  local_repo,   \* commits of the local repository, latest first
  tree,         \* tree[p]: state of path p in the working tree against the index
  linked,       \* linked[e]: the process of e has constructed its LocalView
  start,        \* start[e]: what make_snapshot of e found and did so far (history)
  data_json,    \* lines of data.json, one serialized snapshot each
  opened,       \* opened[e]: Experiment instance e has been constructed
  snapshots,    \* snapshots[e]: the list self.snapshots of instance e
  ids,          \* ids[e]: the set self.ids of instance e
  alloc,        \* alloc[e]: the snapshot Snapshot.create is building
  epc,          \* epc[e]: position of e inside create_snapshot
  elast,        \* the experiment operation executed last (history)
  \* --- flammable/task.py: the command line of the script
  task,         \* task[e]: the BaseTask of the process of e and its command
  content,      \* content[i]: the mutable entries of the i-th snapshot of data.json
  \* --- flammable/library.py: the storage folder and the registry of a process
  storage,      \* storage[n]: the folder n of storage_path
  namespace,    \* names bound in the module library once it is imported
  libraries,    \* the Library instances of the process, their experiments
  nobj,         \* Experiment objects registered so far
  llast,        \* the library operation executed last (history)
  \* --- experiment.py and flammable/task.py: the import of a snapshot's task
  head,         \* what HEAD of the global repository refers to: master or a commit
  sys_path,     \* sys.path of the process
  library_import,   \* BaseTask._library_import
  imported_object,  \* BaseTask._imported_object
  imp,          \* imp[e]: position of e inside import_snapshot, its backup_path
  ilast,        \* the step of import_snapshot executed last (history)
  \* --- experiment.py: Snapshot.generate_id in the process of each instance
  drawn,        \* drawn[e]: what random.randint returned to e
  uid,          \* uid[e]: what generate_id returned for drawn[e], if it has
  twin          \* the call a durable snapshot made and the dummy has to repeat (history)

snapVars == <<root, dir, disk, live, imm, gen, heap, model_files, views, active, pc,
              pending, written, known, origin, quiet, entry, last, ops>>
gitVars == <<remotes, local_git, local_repo, tree, linked, start>>
cliVars == <<task, content>>
libVars == <<storage, namespace, libraries, nobj, llast>>
impVars == <<head, sys_path, library_import, imported_object, imp, ilast>>
uidVars == <<drawn, uid>>
expVars ==
  <<repo, gitVars, data_json, opened, snapshots, ids, alloc, epc, elast, cliVars,
    libVars, impVars, uidVars>>
vars == <<snapVars, expVars, twin>>

\* ------------------------------------------------------------- dictionaries
Put(d, k, val) == [x \in (DOMAIN d) \cup {k} |-> IF x = k THEN val ELSE d[x]]

Scalar(a) == <<"s", a>>
IsList(val) == val[1] = "l"

\* The dictionary objects currently bound to the attributes of handle h.
Obj(h, b) == <<h, b, gen[h]>>

\* ------------------------------------------------------------ serialization
\* Mutant of Data: the key 'comment' is missing from the list of keys.
Data_without_comment(im, hp, mf, h, g) ==
  [uid |-> im.uid, commit_sha |-> im.commit_sha, timestamp |-> im.timestamp,
   filename |-> im.filename, comment |-> "None",
   train_data |-> hp[<<h, "train_data", g>>],
   val_data |-> hp[<<h, "val_data", g>>],
   test_data |-> hp[<<h, "test_data", g>>],
   model_files |-> mf,
   custom_data |-> hp[<<h, "custom_data", g>>]]

\* The dict `data` built by serialize from the instance attributes.
Data(im, hp, mf, h, g) ==
  [uid |-> im.uid, commit_sha |-> im.commit_sha, timestamp |-> im.timestamp,
   filename |-> im.filename, comment |-> im.comment,
   train_data |-> hp[<<h, "train_data", g>>],
   val_data |-> hp[<<h, "val_data", g>>],
   test_data |-> hp[<<h, "test_data", g>>],
   model_files |-> mf,
   custom_data |-> hp[<<h, "custom_data", g>>]]

\* The data of handle h in the current state.
DocOf(h) == Data(imm[h], heap, model_files[h], h, gen[h])

EmptyData(im) ==
  [uid |-> im.uid, commit_sha |-> im.commit_sha, timestamp |-> im.timestamp,
   filename |-> im.filename, comment |-> im.comment,
   train_data |-> EmptyDict, val_data |-> EmptyDict, test_data |-> EmptyDict,
   model_files |-> << >>, custom_data |-> EmptyDict]

\* json.dump raises TypeError on a value it cannot encode.
Encodable(val) == \A i \in 2..Len(val) : val[i] # "tensor"
Serializable(d) == \A b \in Buckets : \A k \in DOMAIN d[b] : Encodable(d[b][k])

\* json.dump writes a dictionary key that is an int as its decimal text, and
\* json.load reads every key as a str.  The int key 1 is written "#1" here,
\* the str key '1' is "1".
JsonKey(k) == IF k \in IntKeys THEN IntText[k] ELSE k

\* A bucket as json.dump writes it and json.load reads it back.
JsonObject(bucket) ==
  [t \in {JsonKey(k) : k \in DOMAIN bucket} |->
     bucket[CHOOSE k \in DOMAIN bucket : JsonKey(k) = t]]

\* The document json.load reads back after json.dump wrote d.
JsonDoc(d) ==
  [f \in DOMAIN d |-> IF f \in Buckets THEN JsonObject(d[f]) ELSE d[f]]

\* What open(path, 'w') followed by json.dump leaves in the file: the whole
\* document, or a truncated text when the encoder raised half way.
json_dump(d) ==
  IF Serializable(d) THEN [valid |-> TRUE, data |-> JsonDoc(d)]
  ELSE [valid |-> FALSE, data |-> EmptyData(NoneFields)]

NoFile == [valid |-> FALSE, data |-> EmptyData(NoneFields)]

NoView == [parent |-> "none", data |-> <<"none", "none", 0>>, ready |-> FALSE]

DrawSet == 0..MaxDraw

\* The numbers random.randint(0, B**N - 1) is made to return: the small ones
\* and, for each digit, the numbers next to its carry, up to the largest.
RECURSIVE Pow(_, _)
Pow(b, k) == IF k = 0 THEN 1 ELSE b * Pow(b, k - 1)
Numbers ==
  (0..MaxNumber) \cup {Pow(B, k) - 1 : k \in 1..N} \cup {Pow(B, k) : k \in 1..(N - 1)}
NoUid == << >>

NoSnapshot == [sid |-> << >>, timestamp |-> "", comment |-> "", hexsha |-> 0,
               filename |-> ""]

\* start[e]: the repositories and the number of snapshots when make_snapshot
\* was called, its message, and what commit detected and returned.
NoRun == [local |-> << >>, repo |-> << >>, snaps |-> 0, message |-> "",
          quiet |-> TRUE, made |-> FALSE, fresh |-> FALSE, first |-> FALSE]

\* BaseTask.__init__: no experiment, a DummySnapshot (snapshot 0), no command
\* yet. `at` is what the command found when it began (history).
NoAt == [snapshots |-> << >>, data |-> << >>, content |-> << >>,
         local |-> << >>, repo |-> << >>]
NoTask == [cmd |-> "none", flag |-> "", changed |-> FALSE, snapshot |-> 0,
           phase |-> "idle", at |-> NoAt]

\* A folder of storage_path: what it holds of the layout of an experiment.
\* repo is "none", a plain folder "dir" or a git repository "git".
NoDir == [exists |-> FALSE, repo |-> "none", assets |-> FALSE, data |-> FALSE]
Layouts ==
  [exists : {TRUE}, repo : {"none", "dir", "git"}, assets : BOOLEAN,
   data : BOOLEAN]

\* result: the object returned, 0 for None or when the call raised.
LOp(name, n, ok, result) == [op |-> name, n |-> n, ok |-> ok, result |-> result]

\* HEAD of the global repository: the branch master, or detached at a commit.
Master == [reference |-> "master", hexsha |-> 0]
Detached(hexsha) == [reference |-> "commit", hexsha |-> hexsha]

\* result: the task import_snapshot returned, "None" when it raised.
IOp(name, e, sid, ok, result) ==
  [op |-> name, e |-> e, sid |-> sid, ok |-> ok, result |-> result]

EOp(name, e, retried) == [op |-> name, e |-> e, retried |-> retried]

Op(name, h, ok, raised) ==
  [op |-> name, h |-> h, ok |-> ok, raised |-> raised]

\* quiet: handle h has completed `count` resets in a row with no other
\* operation of any handle in between; data, disk and dir are what the first
\* of them left.
NoQuiet == [h |-> "none", count |-> 0, data |-> EmptyData(NoneFields),
            disk |-> NoFile, dir |-> {}]

\* Any operation other than reset ends a run of consecutive resets.
Touch == quiet' = NoQuiet

\* twin: phase 1 after the durable snapshot made `call`, phase 0 after the
\* dummy repeated it.
NoTwin == [phase |-> 0, call |-> <<"none", "-", "-">>]

InitState ==
  /\ twin = NoTwin
  /\ root = FALSE
  /\ dir = {}
  /\ disk = NoFile
  /\ live = [h \in Objects |-> FALSE]
  /\ imm = [h \in Objects |-> NoneFields]
  /\ gen = [h \in Objects |-> 0]
  /\ heap = [o \in Objects \X Buckets \X {0} |-> EmptyDict]
  /\ model_files = [h \in Objects |-> << >>]
  /\ views = [h \in Objects |-> NoView]
  /\ active = [h \in Objects |-> FALSE]
  /\ pc = [h \in Objects |-> "idle"]
  /\ pending = [h \in Objects |-> {}]
  /\ written = [h \in Objects |-> EmptyDict]
  /\ known = [h \in Objects |-> EmptyData(NoneFields)]
  /\ origin = NoneFields
  /\ quiet = NoQuiet
  /\ entry = [h \in Objects |-> NoneFields]
  /\ last = Op("init", "none", TRUE, FALSE)
  /\ ops = 0
  /\ repo = << >>
  /\ remotes = << >>
  /\ local_git = "none"
  /\ local_repo = << >>
  /\ tree = [p \in Paths |-> IF p = Script THEN "untracked" ELSE "absent"]
  /\ linked = [e \in Instances |-> FALSE]
  /\ start = [e \in Instances |-> NoRun]
  /\ data_json = << >>
  /\ opened = [e \in Instances |-> e = Founder]
  /\ snapshots = [e \in Instances |-> << >>]
  /\ ids = [e \in Instances |-> {}]
  /\ alloc = [e \in Instances |-> NoSnapshot]
  /\ epc = [e \in Instances |-> "idle"]
  /\ elast = EOp("new", Founder, FALSE)
  /\ task = [e \in Instances |-> NoTask]
  /\ content = << >>
  /\ storage = [n \in ExpNames |-> NoDir]
  /\ namespace = {}
  /\ libraries = << >>
  /\ nobj = 0
  /\ llast = LOp("none", "-", TRUE, 0)
  /\ head = Master
  /\ sys_path = <<"site-packages">>
  /\ library_import = FALSE
  /\ imported_object = "None"
  /\ imp = [e \in Instances |-> [pc |-> "idle", backup_path |-> << >>, sid |-> << >>]]
  /\ ilast = IOp("none", Founder, << >>, TRUE, "None")

\* No identifier has been generated.
Init ==
  /\ InitState
  /\ drawn = [e \in Instances |-> 0]
  /\ uid = [e \in Instances |-> NoUid]

\* A call counts once when the dummy repeats it.
Step ==
  IF twin.phase = 1 THEN ops' = ops
  ELSE ops < MaxOps /\ ops' = ops + 1

\* Mutant of serialize: the document is updated, an empty entry of the
\* instance leaving the entry on disk as it is.
serialize_update(h, d) ==
  /\ dir' = dir \cup {DataFile}
  /\ disk' = json_dump([f \in DOMAIN d |->
                IF f \in MutableKeys /\ d[f] = << >> /\ disk.valid THEN disk.data[f] ELSE d[f]])
  /\ known' = [known EXCEPT ![h] = IF Serializable(d) THEN d ELSE @]

\* Snapshot.serialize of handle h whose attributes yield the dict d.
serialize(h, d) ==
  /\ dir' = dir \cup {DataFile}
  /\ disk' = json_dump(d)
  /\ known' = [known EXCEPT ![h] = IF Serializable(d) THEN d ELSE @]

\* Snapshot.deserialize: every entry of the document becomes an attribute.
deserialize(h) ==
  /\ imm' = [imm EXCEPT ![h] = [f \in ImmutableKeys |-> disk.data[f]]]
  /\ heap' = [o \in DOMAIN heap |->
               IF o[1] = h /\ o[3] = gen[h] THEN disk.data[o[2]] ELSE heap[o]]
  /\ model_files' = [model_files EXCEPT ![h] = disk.data.model_files]
  /\ known' = [known EXCEPT ![h] = disk.data]

\* The parent creates the folder the snapshot lives in.
mkdir ==
  /\ ~root
  /\ root' = TRUE
  /\ last' = Op("mkdir", "none", TRUE, FALSE)
  /\ Touch
  /\ UNCHANGED <<dir, disk, live, imm, gen, heap, model_files, views, active,
                 pc, pending, written, known, origin, entry, ops, expVars>>

\* Mutant of create: the instance is constructed as __init__ constructs it
\* without the raw creation flag, and open() of the missing document raises.
create_reading(h, a) ==
  /\ UNCHANGED <<root, expVars>>
  /\ origin = NoneFields
  /\ h = Creator
  /\ ~live[h]
  /\ DataFile \notin dir
  /\ last' = Op("create", h, FALSE, FALSE)
  /\ Touch
  /\ UNCHANGED <<dir, disk, live, imm, known, origin, gen, heap, model_files,
                 views, active, pc, pending, written, entry, ops>>

\* Snapshot.create: raw construction (nothing is read), the given entries,
\* first serialize.  open(path, 'w') raises FileNotFoundError when the folder
\* does not exist, and then no instance is returned.
create(h, a) ==
  /\ UNCHANGED <<root, expVars>>
  /\ origin = NoneFields
  /\ h = Creator
  /\ ~live[h]
  /\ IF root
     THEN /\ live' = [live EXCEPT ![h] = TRUE]
          /\ imm' = [imm EXCEPT ![h] = a]
          /\ serialize(h, Data(a, heap, model_files[h], h, gen[h]))
          /\ origin' = a
          /\ last' = Op("create", h, TRUE, FALSE)
     ELSE /\ last' = Op("create", h, FALSE, FALSE)
          /\ UNCHANGED <<dir, disk, live, imm, known, origin>>
  /\ Touch
  /\ UNCHANGED <<gen, heap, model_files, views, active, pc, pending, written,
                 entry, ops>>

\* Snapshot.__init__ on an existing directory: open + json.load raise when the
\* document is missing or truncated, and then no instance comes to exist.
load(h) ==
  /\ UNCHANGED <<root, expVars>>
  /\ ~live[h]
  /\ IF DataFile \in dir /\ disk.valid
     THEN /\ live' = [live EXCEPT ![h] = TRUE]
          /\ deserialize(h)
          /\ last' = Op("load", h, TRUE, FALSE)
     ELSE /\ last' = Op("load", h, FALSE, FALSE)
          /\ UNCHANGED <<live, imm, heap, model_files, known>>
  /\ Touch
  /\ UNCHANGED <<dir, disk, gen, views, active, pc, pending, written, origin,
                 entry, ops>>

\* SnapshotView.__init__: the view keeps the dictionary object it is given.
\* A process holds one view at a time; a new one replaces a closed one.
SnapshotView(h, b) ==
  /\ UNCHANGED <<root, expVars>>
  /\ Step
  /\ live[h] /\ pc[h] = "idle"
  /\ ~active[h]
  /\ views' = [views EXCEPT ![h] = [parent |-> h, data |-> Obj(h, b), ready |-> FALSE]]
  /\ written' = [written EXCEPT ![h] = EmptyDict]
  /\ last' = Op("view", h, TRUE, FALSE)
  /\ Touch
  /\ UNCHANGED <<dir, disk, live, imm, gen, heap, model_files, active, pc,
                 pending, known, origin, entry>>

train_storage(h) == SnapshotView(h, "train_data")
val_storage(h) == SnapshotView(h, "val_data")
test_storage(h) == SnapshotView(h, "test_data")
custom_storage(h) == SnapshotView(h, "custom_data")

\* SnapshotView.__enter__
enter(h) ==
  /\ UNCHANGED <<root, expVars>>
  /\ Step
  /\ views[h] # NoView /\ ~active[h]
  /\ pc[h] = "idle"
  /\ views' = [views EXCEPT ![h].ready = TRUE]
  /\ active' = [active EXCEPT ![h] = TRUE]
  /\ written' = [written EXCEPT ![h] = EmptyDict]
  /\ last' = Op("enter", h, TRUE, FALSE)
  /\ Touch
  /\ UNCHANGED <<dir, disk, live, imm, gen, heap, model_files, pc, pending,
                 known, origin, entry>>

\* `with snapshot.<bucket>_storage() as transaction:` as the Logger writes it:
\* the view is constructed and entered in one statement.
with_storage(h, b) ==
  /\ UNCHANGED <<root, expVars>>
  /\ Step
  /\ live[h] /\ pc[h] = "idle"
  /\ ~active[h]
  /\ views' = [views EXCEPT ![h] = [parent |-> h, data |-> Obj(h, b), ready |-> TRUE]]
  /\ active' = [active EXCEPT ![h] = TRUE]
  /\ written' = [written EXCEPT ![h] = EmptyDict]
  /\ last' = Op("enter", h, TRUE, FALSE)
  /\ Touch
  /\ UNCHANGED <<dir, disk, live, imm, gen, heap, model_files, pc, pending,
                 known, origin, entry>>

\* SnapshotView.store
store(h, k, a) ==
  /\ UNCHANGED <<root, expVars>>
  /\ Step
  /\ views[h] # NoView
  /\ pc[h] = "idle"
  /\ IF ~views[h].ready
     THEN /\ last' = Op("store", h, FALSE, FALSE)
          /\ UNCHANGED <<heap, written>>
     ELSE /\ heap' = [heap EXCEPT ![views[h].data] = Put(@, k, Scalar(a))]
          /\ written' = [written EXCEPT ![h] = IF active[h] THEN Put(@, k, Scalar(a)) ELSE @]
          /\ last' = Op("store", h, TRUE, FALSE)
  /\ Touch
  /\ UNCHANGED <<dir, disk, live, imm, gen, model_files, views, active, pc,
                 pending, known, origin, entry>>

\* The value under `name` after target.append(value).
Appended(d, k, a) ==
  IF k \notin DOMAIN d THEN <<"l", a>> ELSE Append(d[k], a)

\* SnapshotView.append; a value that is no list has no append method and the
\* call raises AttributeError.
append(h, k, a) ==
  /\ UNCHANGED <<root, expVars>>
  /\ Step
  /\ views[h] # NoView
  /\ pc[h] = "idle"
  /\ LET d == heap[views[h].data]
         fails == \/ ~views[h].ready
                  \/ (k \in DOMAIN d /\ ~IsList(d[k]))
     IN IF fails
        THEN /\ last' = Op("append", h, FALSE, FALSE)
             /\ UNCHANGED <<heap, written>>
        ELSE /\ heap' = [heap EXCEPT ![views[h].data] = Put(@, k, Appended(d, k, a))]
             /\ written' = [written EXCEPT ![h] =
                              IF active[h] THEN Put(@, k, Appended(d, k, a)) ELSE @]
             /\ last' = Op("append", h, TRUE, FALSE)
  /\ Touch
  /\ UNCHANGED <<dir, disk, live, imm, gen, model_files, views, active, pc,
                 pending, known, origin, entry>>

\* Mutant of exit: nothing is serialized when the body raised.
exit_unless_raised(h, raised) ==
  /\ UNCHANGED <<root, expVars>>
  /\ Step
  /\ active[h]
  /\ pc[h] = "idle"
  /\ LET d == DocOf(h)
     IN /\ IF raised THEN UNCHANGED <<dir, disk, known>> ELSE serialize(h, d)
        /\ views' = [views EXCEPT ![h].ready =
                       IF raised \/ Serializable(d) THEN FALSE ELSE @]
        /\ last' = Op("exit", h, raised \/ Serializable(d), raised)
  /\ active' = [active EXCEPT ![h] = FALSE]
  /\ Touch
  /\ UNCHANGED <<live, imm, gen, heap, model_files, pc, pending, written, origin, entry>>

\* SnapshotView.__exit__: serialize the parent, then mark the view closed.
\* `raised` tells whether the with-body raised; the arguments are ignored.
exit(h, raised) ==
  /\ UNCHANGED <<root, expVars>>
  /\ Step
  /\ active[h]
  /\ pc[h] = "idle"
  /\ LET d == DocOf(h)
     IN /\ serialize(h, d)
        /\ views' = [views EXCEPT ![h].ready = IF Serializable(d) THEN FALSE ELSE @]
        /\ last' = Op("exit", h, Serializable(d), raised)
  /\ active' = [active EXCEPT ![h] = FALSE]
  /\ Touch
  /\ UNCHANGED <<live, imm, gen, heap, model_files, pc, pending, written, origin, entry>>

\* Mutant of register_model_file: the name is inserted at the front.
register_model_file_front(h, f) ==
  /\ UNCHANGED <<root, expVars>>
  /\ Step
  /\ live[h] /\ pc[h] = "idle"
  /\ model_files' = [model_files EXCEPT ![h] = <<f>> \o @]
  /\ LET d == Data(imm[h], heap, <<f>> \o model_files[h], h, gen[h])
     IN /\ serialize(h, d)
        /\ last' = Op("register_model_file", h, Serializable(d), FALSE)
  /\ Touch
  /\ UNCHANGED <<live, imm, gen, heap, views, active, pc, pending, written,
                 origin, entry>>

\* Snapshot.register_model_file
register_model_file(h, f) ==
  /\ UNCHANGED <<root, expVars>>
  /\ Step
  /\ live[h] /\ pc[h] = "idle"
  /\ model_files' = [model_files EXCEPT ![h] = Append(@, f)]
  /\ LET d == Data(imm[h], heap, Append(model_files[h], f), h, gen[h])
     IN /\ serialize(h, d)
        /\ last' = Op("register_model_file", h, Serializable(d), FALSE)
  /\ Touch
  /\ UNCHANGED <<live, imm, gen, heap, views, active, pc, pending, written,
                 origin, entry>>

\* Mutant of save_model: the name is registered, the file is not written.
save_model_unwritten(h, f) ==
  /\ UNCHANGED <<root, expVars>>
  /\ Step
  /\ live[h] /\ pc[h] = "idle"
  /\ model_files' = [model_files EXCEPT ![h] = Append(@, f)]
  /\ LET d == Data(imm[h], heap, Append(model_files[h], f), h, gen[h])
     IN /\ dir' = dir \cup {DataFile}
        /\ disk' = json_dump(d)
        /\ known' = [known EXCEPT ![h] = IF Serializable(d) THEN d ELSE @]
        /\ last' = Op("save_model", h, Serializable(d), FALSE)
  /\ Touch
  /\ UNCHANGED <<live, imm, gen, heap, views, active, pc, pending, written,
                 origin, entry>>

\* PytorchTask.save_model: write the file into the snapshot folder, register it.
save_model(h, f) ==
  /\ UNCHANGED <<root, expVars>>
  /\ Step
  /\ live[h] /\ pc[h] = "idle"
  /\ model_files' = [model_files EXCEPT ![h] = Append(@, f)]
  /\ LET d == Data(imm[h], heap, Append(model_files[h], f), h, gen[h])
     IN /\ dir' = dir \cup {f, DataFile}
        /\ disk' = json_dump(d)
        /\ known' = [known EXCEPT ![h] = IF Serializable(d) THEN d ELSE @]
        /\ last' = Op("save_model", h, Serializable(d), FALSE)
  /\ Touch
  /\ UNCHANGED <<live, imm, gen, heap, views, active, pc, pending, written,
                 origin, entry>>

\* Dictionary objects still referenced after h rebinds its attributes.
Referenced(h) ==
  {views[g].data : g \in Objects} \cup {<<h, b, gen[h] + 1>> : b \in Buckets}
    \cup {Obj(g, b) : g \in Objects \ {h}, b \in Buckets}

\* Mutant of reset_begin: model_files is not cleared.
reset_begin_keeps_model_files(h) ==
  /\ UNCHANGED <<root, expVars>>
  /\ Step
  /\ live[h] /\ pc[h] = "idle"
  /\ gen' = [gen EXCEPT ![h] = @ + 1]
  /\ heap' = [o \in (DOMAIN heap \cup {<<h, b, gen[h] + 1>> : b \in Buckets})
                    \cap (Referenced(h) \ {NoView.data}) |->
               IF o[1] = h /\ o[3] = gen[h] + 1 THEN EmptyDict ELSE heap[o]]
  /\ pending' = [pending EXCEPT ![h] = dir]
  /\ pc' = [pc EXCEPT ![h] = "reset_remove"]
  /\ written' = [written EXCEPT ![h] = EmptyDict]
  /\ quiet' = IF quiet.h = h THEN [quiet EXCEPT !.count = 1]
              ELSE [NoQuiet EXCEPT !.h = h]
  /\ entry' = [entry EXCEPT ![h] = imm[h]]
  /\ last' = Op("reset_begin", h, TRUE, FALSE)
  /\ UNCHANGED <<dir, disk, live, imm, views, active, known, origin, model_files>>

\* Snapshot.reset, first part: fresh empty objects for the mutable entries,
\* and the directory listing of os.scandir.
reset_begin(h) ==
  /\ UNCHANGED <<root, expVars>>
  /\ Step
  /\ live[h] /\ pc[h] = "idle"
  /\ gen' = [gen EXCEPT ![h] = @ + 1]
  /\ heap' = [o \in (DOMAIN heap \cup {<<h, b, gen[h] + 1>> : b \in Buckets})
                    \cap (Referenced(h) \ {NoView.data}) |->
               IF o[1] = h /\ o[3] = gen[h] + 1 THEN EmptyDict ELSE heap[o]]
  /\ model_files' = [model_files EXCEPT ![h] = << >>]
  /\ pending' = [pending EXCEPT ![h] = dir]
  /\ pc' = [pc EXCEPT ![h] = "reset_remove"]
  /\ written' = [written EXCEPT ![h] = EmptyDict]
  /\ quiet' = IF quiet.h = h THEN [quiet EXCEPT !.count = 1]
              ELSE [NoQuiet EXCEPT !.h = h]
  /\ entry' = [entry EXCEPT ![h] = imm[h]]
  /\ last' = Op("reset_begin", h, TRUE, FALSE)
  /\ UNCHANGED <<dir, disk, live, imm, views, active, known, origin>>

\* Mutant of reset_remove: the loop ends after the first entry.
reset_remove_first_only(h, f) ==
  /\ UNCHANGED <<root, expVars>>
  /\ pc[h] = "reset_remove"
  /\ f \in pending[h]
  /\ IF f \in dir
     THEN /\ dir' = dir \ {f}
          /\ disk' = IF f = DataFile THEN NoFile ELSE disk
          /\ pending' = [pending EXCEPT ![h] = {}]
          /\ last' = Op("reset_remove", h, TRUE, FALSE)
          /\ quiet' = IF quiet.h = h THEN quiet ELSE NoQuiet
          /\ UNCHANGED pc
     ELSE /\ pending' = [pending EXCEPT ![h] = {}]
          /\ pc' = [pc EXCEPT ![h] = "idle"]
          /\ last' = Op("reset", h, FALSE, FALSE)
          /\ quiet' = NoQuiet
          /\ UNCHANGED <<dir, disk>>
  /\ UNCHANGED <<live, imm, gen, heap, model_files, views, active, written,
                 known, origin, entry, ops>>

\* Snapshot.reset, the loop: os.remove of one scanned entry; it raises
\* FileNotFoundError when the entry is gone, which ends reset.
reset_remove(h, f) ==
  /\ UNCHANGED <<root, expVars>>
  /\ pc[h] = "reset_remove"
  /\ f \in pending[h]
  /\ IF f \in dir
     THEN /\ dir' = dir \ {f}
          /\ disk' = IF f = DataFile THEN NoFile ELSE disk
          /\ pending' = [pending EXCEPT ![h] = @ \ {f}]
          /\ last' = Op("reset_remove", h, TRUE, FALSE)
          /\ quiet' = IF quiet.h = h THEN quiet ELSE NoQuiet
          /\ UNCHANGED pc
     ELSE /\ pending' = [pending EXCEPT ![h] = {}]
          /\ pc' = [pc EXCEPT ![h] = "idle"]
          /\ last' = Op("reset", h, FALSE, FALSE)
          /\ quiet' = NoQuiet
          /\ UNCHANGED <<dir, disk>>
  /\ UNCHANGED <<live, imm, gen, heap, model_files, views, active, written,
                 known, origin, entry, ops>>

\* Snapshot.reset, last part: reserialize.
reset_serialize(h) ==
  /\ UNCHANGED <<root, expVars>>
  /\ pc[h] = "reset_remove"
  /\ pending[h] = {}
  /\ serialize(h, DocOf(h))
  /\ pc' = [pc EXCEPT ![h] = "idle"]
  /\ last' = Op("reset", h, Serializable(DocOf(h)), FALSE)
  /\ quiet' = IF quiet.h # h THEN NoQuiet
              ELSE IF quiet.count = 0
              THEN [h |-> h, count |-> 1, data |-> DocOf(h),
                    disk |-> json_dump(DocOf(h)), dir |-> dir \cup {DataFile}]
              ELSE [quiet EXCEPT !.count = 2]
  /\ UNCHANGED <<live, imm, gen, heap, model_files, views, active, pending,
                 written, origin, entry, ops>>


\* ----------------------------------------------------------- DummySnapshot
\* DummySnapshot.serialize and DummySnapshot.deserialize: pass.
serialize_dummy == UNCHANGED <<root, dir, disk, known>>
deserialize_dummy(h) == UNCHANGED <<imm, heap, model_files>>

\* DummySnapshot.__init__: Snapshot.__init__('.') with the overridden
\* deserialize.
DummySnapshot(h) ==
  /\ UNCHANGED expVars
  /\ h \in Dummies /\ ~live[h]
  /\ live' = [live EXCEPT ![h] = TRUE]
  /\ deserialize_dummy(h)
  /\ serialize_dummy
  /\ last' = Op("DummySnapshot", h, TRUE, FALSE)
  /\ Touch
  /\ UNCHANGED <<gen, views, active, pc, pending, written, origin, entry, ops>>

\* SnapshotView.__exit__ of a view whose parent is a DummySnapshot.
exit_dummy(h, raised) ==
  /\ UNCHANGED expVars
  /\ Step
  /\ h \in Dummies
  /\ active[h]
  /\ serialize_dummy
  /\ views' = [views EXCEPT ![h].ready = FALSE]
  /\ last' = Op("exit", h, TRUE, raised)
  /\ active' = [active EXCEPT ![h] = FALSE]
  /\ Touch
  /\ UNCHANGED <<live, imm, gen, heap, model_files, pc, pending, written, origin, entry>>

\* Snapshot.register_model_file on a DummySnapshot.
register_model_file_dummy(h, f) ==
  /\ UNCHANGED expVars
  /\ Step
  /\ h \in Dummies /\ live[h]
  /\ model_files' = [model_files EXCEPT ![h] = Append(@, f)]
  /\ serialize_dummy
  /\ last' = Op("register_model_file", h, TRUE, FALSE)
  /\ Touch
  /\ UNCHANGED <<live, imm, gen, heap, views, active, pc, pending, written,
                 origin, entry>>

\* DummySnapshot.reset: fresh empty objects, nothing removed, nothing written.
reset_dummy(h) ==
  /\ UNCHANGED expVars
  /\ Step
  /\ h \in Dummies /\ live[h]
  /\ gen' = [gen EXCEPT ![h] = @ + 1]
  /\ heap' = [o \in (DOMAIN heap \cup {<<h, b, gen[h] + 1>> : b \in Buckets})
                    \cap (Referenced(h) \ {NoView.data}) |->
               IF o[1] = h /\ o[3] = gen[h] + 1 THEN EmptyDict ELSE heap[o]]
  /\ model_files' = [model_files EXCEPT ![h] = << >>]
  /\ written' = [written EXCEPT ![h] = EmptyDict]
  /\ serialize_dummy
  /\ last' = Op("reset", h, TRUE, FALSE)
  /\ Touch
  /\ UNCHANGED <<live, imm, views, active, pc, pending, origin, entry>>

\* ------------------------------------------------------------- experiment.py
\* Snapshot.generate_id after random.randint drew `number`: the digits are
\* taken least significant first, the letters joined in reverse.
RECURSIVE Digits(_, _)
Digits(number, i) ==
  IF i = 0 THEN << >>
  ELSE LET d == number % B
       IN <<d>> \o Digits((number - d) \div B, i - 1)

\* Mutant of generate_id: the letters are joined in the order of the digits.
generate_id_unreversed(number) ==
  LET digits == Digits(number, N)
  IN [i \in 1..N |-> Letters[digits[i] + 1]]

generate_id(number) ==
  LET digits == Digits(number, N)
  IN [i \in 1..N |-> Letters[digits[N + 1 - i] + 1]]

\* What generate_id leaves alone.
notUid ==
  <<snapVars, twin, repo, gitVars, data_json, opened, snapshots, ids, alloc,
    epc, elast, cliVars, libVars, impVars>>

\* Snapshot.generate_id, its first statements: random.randint returns n.
randint(e, n) ==
  /\ drawn' = [drawn EXCEPT ![e] = n]
  /\ uid' = [uid EXCEPT ![e] = NoUid]
  /\ UNCHANGED notUid

\* Snapshot.generate_id, the rest: the digits and the string of letters.
generate(e) ==
  /\ uid[e] = NoUid
  /\ uid' = [uid EXCEPT ![e] = generate_id(drawn[e])]
  /\ UNCHANGED <<drawn, notUid>>

Sids(list) == {list[i].sid : i \in 1..Len(list)}

\* Experiment.__init__: load_data and the set of ids.
Experiment(e) ==
  /\ UNCHANGED snapVars
  /\ ~opened[e]
  /\ opened' = [opened EXCEPT ![e] = TRUE]
  /\ snapshots' = [snapshots EXCEPT ![e] = data_json]
  /\ ids' = [ids EXCEPT ![e] = Sids(data_json)]
  /\ elast' = EOp("open", e, FALSE)
  /\ UNCHANGED <<repo, gitVars, data_json, alloc, epc>>

\* Mutant of Collides: the drawn id is never compared with the recorded ids.
Collides_unchecked(e) == FALSE

\* The while-condition of Snapshot.create.
Collides(e) == alloc[e].sid \in ids[e]

\* ---- the working tree and the two repositories
startswith(f, ex) == Len(f) >= Len(ex) /\ SubSeq(f, 1, Len(ex)) = ex

\* The user edits the local directory: a file is written, changed or deleted.
\* The script being run is never deleted.
Edits ==
  {<<"absent", "untracked">>, <<"clean", "modified">>, <<"clean", "deleted">>}

edit(p, to) ==
  /\ UNCHANGED <<snapVars, twin>>
  /\ <<tree[p], to>> \in Edits
  /\ p = Script => to # "deleted"
  /\ tree' = [tree EXCEPT ![p] = to]
  /\ elast' = EOp("edit", "none", FALSE)
  /\ UNCHANGED <<repo, remotes, local_git, local_repo, linked, start, data_json,
                 opened, snapshots, ids, alloc, epc>>

\* The user made the local directory a git repository before the first run.
git_init ==
  /\ UNCHANGED <<snapVars, twin>>
  /\ local_git = "none"
  /\ local_git' = "user"
  /\ elast' = EOp("git_init", "none", FALSE)
  /\ UNCHANGED <<repo, remotes, local_repo, tree, linked, start, data_json,
                 opened, snapshots, ids, alloc, epc>>

\* Mutant of LocalView: a new repository is not made a remote.
LocalView_unlinked(e) ==
  /\ UNCHANGED <<snapVars, twin>>
  /\ opened[e] /\ ~linked[e]
  /\ linked' = [linked EXCEPT ![e] = TRUE]
  /\ local_git' = IF local_git = "none" THEN "init" ELSE local_git
  /\ elast' = EOp("link", e, FALSE)
  /\ UNCHANGED <<repo, remotes, local_repo, tree, start, data_json, opened,
                 snapshots, ids, alloc, epc>>

\* LocalView.__init__ with get_local: an existing repository is opened; a
\* new one is initialized and made a remote of the global repository.
LocalView(e) ==
  /\ UNCHANGED <<snapVars, twin>>
  /\ opened[e] /\ ~linked[e]
  /\ linked' = [linked EXCEPT ![e] = TRUE]
  /\ IF local_git = "none"
     THEN /\ local_git' = "init"
          /\ remotes' = Append(remotes, "local")
     ELSE UNCHANGED <<local_git, remotes>>
  /\ elast' = EOp("link", e, FALSE)
  /\ UNCHANGED <<repo, local_repo, tree, start, data_json, opened, snapshots,
                 ids, alloc, epc>>

\* Mutant of LocalView_error: every failure of git.Repo is taken for a
\* missing repository.
LocalView_error_caught(e) ==
  /\ UNCHANGED <<snapVars, twin>>
  /\ opened[e] /\ ~linked[e]
  /\ linked' = [linked EXCEPT ![e] = TRUE]
  /\ local_git' = "init"
  /\ remotes' = Append(remotes, "local")
  /\ elast' = EOp("link", e, FALSE)
  /\ UNCHANGED <<repo, local_repo, tree, start, data_json, opened, snapshots,
                 ids, alloc, epc>>

\* LocalView.__init__ when git.Repo raises something else than
\* InvalidGitRepositoryError: get_local does not catch it and no LocalView
\* is constructed.
LocalView_error(e) ==
  /\ UNCHANGED <<snapVars, twin>>
  /\ opened[e] /\ ~linked[e]
  /\ elast' = EOp("link_raised", e, FALSE)
  /\ UNCHANGED <<repo, gitVars, data_json, opened, snapshots, ids, alloc, epc>>

\* LocalView.commit, the detection: index.diff(None) lists the tracked paths
\* that are modified or deleted; untracked_files the untracked ones.
is_changed(t) == \E p \in Paths : t[p] \in {"modified", "deleted"}
untracked_files(t) == {p \in Paths : t[p] = "untracked"}

\* Mutant of has_untracked: only a path equal to an entry is excluded.
has_untracked_exact(t) ==
  \E f \in untracked_files(t) : f \notin EXCLUDE

has_untracked(t) ==
  \E f \in untracked_files(t) :
     f \notin EXCLUDE /\ ~\E ex \in EXCLUDE : startswith(f, ex)
should_commit(t) == is_changed(t) \/ has_untracked(t)

\* index.add of the entries of os.listdir not in EXCLUDE: every file present
\* under such an entry is staged; a deleted file is in no entry.
index_add(t) ==
  [p \in Paths |->
     IF t[p] \in {"untracked", "modified"} /\ Item[p] \notin EXCLUDE
     THEN "clean" ELSE t[p]]

\* Mutant of commit: a commit is made whatever was detected.
commit_always(e, message) ==
  /\ UNCHANGED <<snapVars, twin>>
  /\ linked[e] /\ epc[e] = "idle"
  /\ Len(local_repo) < MaxCommits
  /\ start' = [start EXCEPT ![e] =
       [local |-> local_repo, repo |-> repo, snaps |-> Len(snapshots[e]),
        message |-> message, quiet |-> ~should_commit(tree), made |-> TRUE,
        fresh |-> local_git = "init",
        first |-> snapshots[e] = << >> /\ data_json = << >>]]
  /\ tree' = index_add(tree)
  /\ local_repo' = <<[sha |-> Len(local_repo) + 1, message |-> message]>> \o local_repo
  /\ epc' = [epc EXCEPT ![e] = "synchronize"]
  /\ elast' = EOp("commit", e, FALSE)
  /\ UNCHANGED <<repo, remotes, local_git, linked, data_json, opened, snapshots,
                 ids, alloc>>

\* LocalView.make_snapshot, its call of self.commit(message).
commit(e, message) ==
  /\ UNCHANGED <<snapVars, twin>>
  /\ linked[e] /\ epc[e] = "idle"
  /\ should_commit(tree) => Len(local_repo) < MaxCommits
  /\ start' = [start EXCEPT ![e] =
       [local |-> local_repo, repo |-> repo, snaps |-> Len(snapshots[e]),
        message |-> message, quiet |-> ~should_commit(tree),
        made |-> should_commit(tree), fresh |-> local_git = "init",
        first |-> snapshots[e] = << >> /\ data_json = << >>]]
  /\ IF should_commit(tree)
     THEN /\ tree' = index_add(tree)
          /\ local_repo' =
               <<[sha |-> Len(local_repo) + 1, message |-> message]>> \o local_repo
          /\ epc' = [epc EXCEPT ![e] = "synchronize"]
     ELSE /\ epc' = [epc EXCEPT ![e] = "create_snapshot"]
          /\ UNCHANGED <<tree, local_repo>>
  /\ elast' = EOp("commit", e, FALSE)
  /\ UNCHANGED <<repo, remotes, local_git, linked, data_json, opened, snapshots,
                 ids, alloc>>

\* Mutant of synchronize: the pull goes the other way.
synchronize_push(e) ==
  /\ UNCHANGED <<snapVars, twin>>
  /\ epc[e] = "synchronize"
  /\ local_repo' = repo
  /\ epc' = [epc EXCEPT ![e] = "create_snapshot"]
  /\ elast' = EOp("synchronize", e, FALSE)
  /\ UNCHANGED <<repo, remotes, local_git, tree, linked, start, data_json,
                 opened, snapshots, ids, alloc>>

\* LocalView.synchronize: remotes[0] raises IndexError when the global
\* repository has no remote; pull('master') fast-forwards the global master
\* to the local one, of which it is an ancestor.
synchronize(e) ==
  /\ UNCHANGED <<snapVars, twin>>
  /\ epc[e] = "synchronize"
  /\ IF remotes = << >>
     THEN /\ epc' = [epc EXCEPT ![e] = "idle"]
          /\ elast' = EOp("synchronize_raised", e, FALSE)
          /\ UNCHANGED repo
     ELSE /\ repo' = local_repo
          /\ epc' = [epc EXCEPT ![e] = "create_snapshot"]
          /\ elast' = EOp("synchronize", e, FALSE)
  /\ UNCHANGED <<remotes, local_git, local_repo, tree, linked, start, data_json,
                 opened, snapshots, ids, alloc>>

\* Experiment.create_snapshot up to the first draw of Snapshot.create: the
\* latest commit of the global repository, the time and a first identifier.
\* With no commit in the repository hexsha is never bound and the call raises.
begin_snapshot(e, t, number) ==
  /\ UNCHANGED <<snapVars, twin>>
  /\ epc[e] = "create_snapshot"
  /\ IF repo = << >>
     THEN /\ epc' = [epc EXCEPT ![e] = "idle"]
          /\ elast' = EOp("create_raised", e, FALSE)
          /\ UNCHANGED alloc
     ELSE /\ alloc' = [alloc EXCEPT ![e] =
               [sid |-> generate_id(number), timestamp |-> t,
                comment |-> start[e].message, hexsha |-> repo[1].sha,
                filename |-> CallFile]]
          /\ epc' = [epc EXCEPT ![e] = "create"]
          /\ elast' = EOp("draw", e, FALSE)
  /\ UNCHANGED <<repo, gitVars, data_json, opened, snapshots, ids>>

\* Mutant of create_retry: the loop tests the identifier it drew first again,
\* without drawing a new one.
create_retry_same(e, number) ==
  /\ UNCHANGED snapVars
  /\ epc[e] = "create"
  /\ Collides(e)
  /\ elast' = EOp("retry", e, TRUE)
  /\ UNCHANGED <<repo, gitVars, data_json, opened, snapshots, ids, epc, alloc>>

\* Snapshot.create, one turn of the loop: the id is taken, draw again.
create_retry(e, number) ==
  /\ UNCHANGED snapVars
  /\ epc[e] = "create"
  /\ Collides(e)
  /\ alloc' = [alloc EXCEPT ![e].sid = generate_id(number)]
  /\ elast' = EOp("retry", e, TRUE)
  /\ UNCHANGED <<repo, gitVars, data_json, opened, snapshots, ids, epc>>

\* Snapshot.to_json followed by Snapshot.from_json: the five entries, in order.
to_json(snap) ==
  <<snap.sid, snap.timestamp, snap.comment, snap.hexsha, snap.filename>>
from_json(items) ==
  [sid |-> items[1], timestamp |-> items[2], comment |-> items[3],
   hexsha |-> items[4], filename |-> items[5]]

\* Experiment.save_data: the file is rewritten from self.snapshots.
save_data(list) == data_json' = [i \in 1..Len(list) |-> from_json(to_json(list[i]))]

\* Experiment.create_snapshot once Snapshot.create has returned: append to the
\* registry, save, record the id.
create_snapshot(e) ==
  /\ UNCHANGED snapVars
  /\ epc[e] = "create"
  /\ ~Collides(e)
  /\ snapshots' = [snapshots EXCEPT ![e] = Append(@, alloc[e])]
  /\ save_data(Append(snapshots[e], alloc[e]))
  /\ ids' = [ids EXCEPT ![e] = @ \cup {alloc[e].sid}]
  /\ alloc' = [alloc EXCEPT ![e] = NoSnapshot]
  /\ epc' = [epc EXCEPT ![e] = "idle"]
  /\ elast' = EOp("create_snapshot", e, elast.e = e /\ elast.op = "retry")
  /\ UNCHANGED <<repo, gitVars, opened>>

\* ---- flammable/task.py: the commands train, test and eval

\* The user commits the working tree by hand: git add -A and git commit.
user_commit ==
  /\ UNCHANGED <<snapVars, twin>>
  /\ local_git # "none"
  /\ \A e \in Instances : epc[e] = "idle"
  /\ Len(local_repo) < MaxCommits
  /\ tree' = [p \in Paths |->
               IF tree[p] \in {"untracked", "modified"} THEN "clean"
               ELSE IF tree[p] = "deleted" THEN "absent" ELSE tree[p]]
  /\ local_repo' = <<[sha |-> Len(local_repo) + 1, message |-> "by hand"]>> \o local_repo
  /\ elast' = EOp("user_commit", "none", FALSE)
  /\ UNCHANGED <<repo, remotes, local_git, linked, start, data_json, opened,
                 snapshots, ids, alloc, epc, cliVars>>

\* Experiment.check_changes: the summary of the change detection.
check_changes(t) == is_changed(t) \/ has_untracked(t)

\* Experiment.get_last_snapshot: the position of the last snapshot of the
\* list, 0 when there is none and the lookup fails.
get_last_snapshot(e) == Len(snapshots[e])

\* Snapshot.reset and the training of a snapshot, on its mutable entries.
\* (mutant of reset: the entries are left as they are)
reset_nothing(c, i) == c

reset(c, i) == [c EXCEPT ![i] = "empty"]
store_train(c, i) == [c EXCEPT ![i] = "filled"]

\* A command may begin: the process of the last one is over.
Done == {"idle", "ran", "returned", "raised"}
TrainFlags == {"", "--retrain", "--force"}
At(e) == [snapshots |-> snapshots[e], data |-> data_json, content |-> content,
          local |-> local_repo, repo |-> repo]
Begun(e, cmd, flag) ==
  [NoTask EXCEPT !.cmd = cmd, !.flag = flag, !.changed = check_changes(tree),
                 !.at = At(e)]

\* What a branch of a command leaves alone when it makes no snapshot.
NoRepositoryChange ==
  /\ UNCHANGED <<snapVars, twin>>
  /\ UNCHANGED <<repo, gitVars, data_json, opened, snapshots, ids, alloc, epc>>

\* Mutant of cli_train: without a change and without a flag a snapshot is
\* made all the same.
cli_train_always(e, message, flag) ==
  /\ linked[e] /\ epc[e] = "idle" /\ task[e].phase \in Done
  /\ IF check_changes(tree) \/ flag # "--retrain"
     THEN /\ commit(e, message)
          /\ task' = [task EXCEPT ![e] =
               [Begun(e, "train", flag) EXCEPT !.phase = "making"]]
          /\ UNCHANGED content
     ELSE /\ NoRepositoryChange
          /\ elast' = EOp("cli_train", e, FALSE)
          /\ IF get_last_snapshot(e) = 0
             THEN /\ task' = [task EXCEPT ![e] =
                       [Begun(e, "train", flag) EXCEPT !.phase = "raised"]]
                  /\ UNCHANGED content
             ELSE /\ task' = [task EXCEPT ![e] =
                       [Begun(e, "train", flag) EXCEPT
                          !.snapshot = get_last_snapshot(e), !.phase = "ready"]]
                  /\ content' = reset(content, get_last_snapshot(e))

\* BaseTask.cli_train up to self.train(): with a change, or with --force, a
\* snapshot is made (here its commit step); with --retrain the last snapshot
\* is fetched and reset; otherwise the command returns.
cli_train(e, message, flag) ==
  /\ linked[e] /\ epc[e] = "idle" /\ task[e].phase \in Done
  /\ IF check_changes(tree) \/ flag = "--force"
     THEN /\ commit(e, message)
          /\ task' = [task EXCEPT ![e] =
               [Begun(e, "train", flag) EXCEPT !.phase = "making"]]
          /\ UNCHANGED content
     ELSE /\ NoRepositoryChange
          /\ elast' = EOp("cli_train", e, FALSE)
          /\ IF flag = "--retrain"
             THEN IF get_last_snapshot(e) = 0
                  THEN /\ task' = [task EXCEPT ![e] =
                            [Begun(e, "train", flag) EXCEPT !.phase = "raised"]]
                       /\ UNCHANGED content
                  ELSE /\ task' = [task EXCEPT ![e] =
                            [Begun(e, "train", flag) EXCEPT
                               !.snapshot = get_last_snapshot(e), !.phase = "ready"]]
                       /\ content' = reset(content, get_last_snapshot(e))
             ELSE /\ task' = [task EXCEPT ![e] =
                       [Begun(e, "train", flag) EXCEPT !.phase = "returned"]]
                  /\ UNCHANGED content

\* make_snapshot inside cli_train: synchronize and the lookup of the latest
\* commit end the command when they raise.
train_synchronize(e) ==
  /\ task[e].phase = "making"
  /\ synchronize(e)
  /\ task' = [task EXCEPT ![e].phase = IF remotes = << >> THEN "raised" ELSE @]
  /\ UNCHANGED content

train_begin_snapshot(e, t, number) ==
  /\ task[e].phase = "making"
  /\ begin_snapshot(e, t, number)
  /\ task' = [task EXCEPT ![e].phase = IF repo = << >> THEN "raised" ELSE @]
  /\ UNCHANGED content

train_create_retry(e, number) ==
  /\ task[e].phase = "making"
  /\ create_retry(e, number)
  /\ UNCHANGED <<twin, cliVars>>

\* self.snapshot = make_snapshot(...): the new snapshot, with empty entries.
train_create_snapshot(e) ==
  /\ task[e].phase = "making"
  /\ create_snapshot(e)
  /\ task' = [task EXCEPT ![e].snapshot = Len(snapshots[e]) + 1,
                          ![e].phase = "ready"]
  /\ content' = Append(content, "empty")
  /\ UNCHANGED twin

\* self.train() of cli_train: the training fills the task's snapshot.
train(e) ==
  /\ NoRepositoryChange
  /\ task[e].cmd = "train" /\ task[e].phase = "ready"
  /\ content' = store_train(content, task[e].snapshot)
  /\ task' = [task EXCEPT ![e].phase = "ran"]
  /\ elast' = EOp("train", e, FALSE)

\* Mutant of cli_test: the flag is not looked at.
cli_test_unasked(e, ignore) ==
  /\ NoRepositoryChange
  /\ linked[e] /\ epc[e] = "idle" /\ task[e].phase \in Done
  /\ elast' = EOp("cli_test", e, FALSE)
  /\ UNCHANGED content
  /\ LET begun == Begun(e, "test", IF ignore THEN "--ignore" ELSE "")
     IN task' = [task EXCEPT ![e] =
          IF get_last_snapshot(e) = 0 THEN [begun EXCEPT !.phase = "raised"]
          ELSE [begun EXCEPT !.snapshot = get_last_snapshot(e), !.phase = "ran"]]

\* BaseTask.cli_test: without a change, or with --ignore, the last snapshot
\* is fetched and self.test() runs; otherwise the command only prints.
cli_test(e, ignore) ==
  /\ NoRepositoryChange
  /\ linked[e] /\ epc[e] = "idle" /\ task[e].phase \in Done
  /\ elast' = EOp("cli_test", e, FALSE)
  /\ UNCHANGED content
  /\ LET begun == Begun(e, "test", IF ignore THEN "--ignore" ELSE "")
     IN task' = [task EXCEPT ![e] =
          IF ~check_changes(tree) \/ ignore
          THEN IF get_last_snapshot(e) = 0 THEN [begun EXCEPT !.phase = "raised"]
               ELSE [begun EXCEPT !.snapshot = get_last_snapshot(e), !.phase = "ran"]
          ELSE [begun EXCEPT !.phase = "returned"]]

\* BaseTask.cli_eval: as cli_test, with self.eval_path(...).
cli_eval(e, ignore) ==
  /\ NoRepositoryChange
  /\ linked[e] /\ epc[e] = "idle" /\ task[e].phase \in Done
  /\ elast' = EOp("cli_eval", e, FALSE)
  /\ UNCHANGED content
  /\ LET begun == Begun(e, "eval", IF ignore THEN "--ignore" ELSE "")
     IN task' = [task EXCEPT ![e] =
          IF ~check_changes(tree) \/ ignore
          THEN IF get_last_snapshot(e) = 0 THEN [begun EXCEPT !.phase = "raised"]
               ELSE [begun EXCEPT !.snapshot = get_last_snapshot(e), !.phase = "ran"]
          ELSE [begun EXCEPT !.phase = "returned"]]

\* ---- Experiment.import_snapshot

\* What the import of a snapshot leaves alone: everything but HEAD.
notImp ==
  <<snapVars, twin, repo, gitVars, data_json, opened, snapshots, ids, alloc,
    epc, elast, cliVars, libVars, uidVars>>

\* Mutant of import_snapshot: the index is looked at after Task.init_import.
import_snapshot_late_check(e, snapshot) ==
  /\ UNCHANGED notImp
  /\ epc[e] = "idle" /\ imp[e].pc = "idle"
  /\ library_import' = TRUE
  /\ IF snapshot.sid \notin ids[e]
     THEN /\ ilast' = IOp("import_snapshot", e, snapshot.sid, FALSE, "None")
          /\ UNCHANGED <<head, sys_path, imported_object, imp>>
     ELSE /\ head' = Detached(snapshot.hexsha)
          /\ imp' = [imp EXCEPT ![e] =
               [pc |-> "import_module", backup_path |-> sys_path,
                sid |-> snapshot.sid]]
          /\ sys_path' = <<"repo">>
          /\ ilast' = IOp("import_snapshot", e, snapshot.sid, TRUE, "None")
          /\ UNCHANGED imported_object

\* Experiment.import_snapshot up to importlib.import_module: the index is
\* looked at first; then Task.init_import, the checkout of the snapshot's
\* commit and sys.path.
import_snapshot(e, snapshot) ==
  /\ UNCHANGED notImp
  /\ epc[e] = "idle" /\ imp[e].pc = "idle"
  /\ IF snapshot.sid \notin ids[e]
     THEN /\ ilast' = IOp("import_snapshot", e, snapshot.sid, FALSE, "None")
          /\ UNCHANGED <<head, sys_path, library_import, imported_object, imp>>
     ELSE /\ library_import' = TRUE
          /\ head' = Detached(snapshot.hexsha)
          /\ imp' = [imp EXCEPT ![e] =
               [pc |-> "import_module", backup_path |-> sys_path,
                sid |-> snapshot.sid]]
          /\ sys_path' = <<"repo">>
          /\ ilast' = IOp("import_snapshot", e, snapshot.sid, TRUE, "None")
          /\ UNCHANGED imported_object

\* importlib.import_module: the script runs; its main finds a library import
\* and registers the task (BaseTask.api_main), or the script raises and the
\* exception leaves import_snapshot.
import_module(e, raises) ==
  /\ UNCHANGED notImp
  /\ imp[e].pc = "import_module"
  /\ IF raises
     THEN /\ imp' = [imp EXCEPT ![e].pc = "idle"]
          /\ ilast' = IOp("import_module", e, imp[e].sid, FALSE, "None")
          /\ UNCHANGED imported_object
     ELSE /\ imported_object' = IF library_import THEN "task" ELSE imported_object
          /\ imp' = [imp EXCEPT ![e].pc = "retrieve"]
          /\ ilast' = IOp("import_module", e, imp[e].sid, TRUE, "None")
  /\ UNCHANGED <<head, sys_path, library_import>>

\* The rest of import_snapshot: HEAD back on master, Task.retrieve_instance,
\* sys.path restored.
import_return(e) ==
  /\ UNCHANGED notImp
  /\ imp[e].pc = "retrieve"
  /\ head' = Master
  /\ imported_object' = "None"
  /\ library_import' = FALSE
  /\ sys_path' = imp[e].backup_path
  /\ imp' = [imp EXCEPT ![e].pc = "idle"]
  /\ ilast' = IOp("return", e, imp[e].sid, TRUE, imported_object)

\* ---- flammable/library.py: the registry of experiments

\* What the operations of the library leave alone.
notLib ==
  <<snapVars, twin, repo, gitVars, data_json, opened, snapshots, ids, alloc,
    epc, elast, cliVars, uidVars>>

\* Another program, or an earlier process, makes a folder in storage_path.
make_folder(n, d) ==
  /\ UNCHANGED notLib
  /\ ~storage[n].exists
  /\ storage' = [storage EXCEPT ![n] = d]
  /\ llast' = LOp("make_folder", n, TRUE, 0)
  /\ UNCHANGED <<namespace, libraries, nobj>>

\* Experiment.verify: repo is looked for twice, then data.json.
verify(d) ==
  IF ~(d.exists /\ d.repo # "none") THEN FALSE
  ELSE IF ~(d.exists /\ d.repo # "none") THEN FALSE
  ELSE IF ~(d.exists /\ d.data) THEN FALSE
  ELSE TRUE

\* Experiment.__init__: verify, then git.Repo on the repo folder, which
\* raises unless it is a git repository; TRUE when an object is constructed.
Experiment_init(d) == verify(d) /\ d.repo = "git"

\* Experiment.new: the folders, the empty data.json and git init.
Skeleton == [exists |-> TRUE, repo |-> "git", assets |-> TRUE, data |-> TRUE]

\* An Experiment object: the folder it was constructed on, its snapshots.
Object(id, n) == [id |-> id, name |-> n, snapshots |-> << >>]

\* Mutant of load_experiments: the first folder that fails is fatal.
load_experiments_fatal(st) ==
  IF \E n \in ExpNames : st[n].exists /\ ~Experiment_init(st[n])
  THEN [ok |-> FALSE, experiments |-> << >>]
  ELSE [ok |-> TRUE,
        experiments |-> [n \in {m \in ExpNames : st[m].exists} |->
                           Object(nobj + 1, n)]]

\* Library.load_experiments: every folder is tried, a failure skipped.
\* Objects made in one scan differ; their numbers only tell them apart.
load_experiments(st) ==
  [ok |-> TRUE,
   experiments |->
     [n \in {m \in ExpNames : st[m].exists /\ Experiment_init(st[m])} |->
        Object(nobj + (IF n = "mnist" THEN 1 ELSE 2), n)]]

\* Library.__init__; way tells how the class was reached (history).
construct_library(way) ==
  LET scan == load_experiments(storage)
  IN /\ libraries' = IF scan.ok THEN Append(libraries, scan.experiments)
                     ELSE libraries
     /\ nobj' = nobj + 2
     /\ llast' = LOp("Library", way, scan.ok, 0)

\* Mutant of import_library: the class name stays bound.
import_library_keeping_name ==
  /\ UNCHANGED notLib
  /\ namespace = {}
  /\ construct_library("import")
  /\ namespace' = IF llast'.ok THEN {"library", "Library"} ELSE {}
  /\ UNCHANGED storage

\* The module library is imported: library = Library(), then del Library.
import_library ==
  /\ UNCHANGED notLib
  /\ namespace = {}
  /\ construct_library("import")
  /\ namespace' = IF llast'.ok THEN {"library"} ELSE {}
  /\ UNCHANGED storage

\* Library() written out by name after the import.
Library_by_name ==
  /\ UNCHANGED notLib
  /\ "library" \in namespace
  /\ Len(libraries) < MaxLibraries
  /\ IF "Library" \in namespace
     THEN construct_library("Library")
     ELSE /\ llast' = LOp("NameError", "Library", FALSE, 0)
          /\ UNCHANGED <<libraries, nobj>>
  /\ UNCHANGED <<storage, namespace>>

\* library.__class__(), the way the comment of the module names.
Library_by_class ==
  /\ UNCHANGED notLib
  /\ "library" \in namespace
  /\ Len(libraries) < MaxLibraries
  /\ construct_library("__class__")
  /\ UNCHANGED <<storage, namespace>>

\* Library.get_experiment.
get_experiment(lib, n) == IF n \in DOMAIN lib THEN lib[n].id ELSE 0

\* Mutant of get_or_create: a known name is provisioned again.
get_or_create_anew(n) ==
  /\ UNCHANGED notLib
  /\ "library" \in namespace
  /\ IF storage[n].exists /\ n \notin DOMAIN libraries[1]
     THEN /\ llast' = LOp("get_or_create", n, FALSE, 0)
          /\ UNCHANGED <<storage, libraries, nobj>>
     ELSE /\ storage' = [storage EXCEPT ![n] = Skeleton]
          /\ libraries' = [libraries EXCEPT ![1] =
               [m \in DOMAIN @ \cup {n} |->
                  IF m = n THEN Object(nobj + 1, n) ELSE @[m]]]
          /\ nobj' = nobj + 1
          /\ llast' = LOp("get_or_create", n, TRUE, nobj + 1)
  /\ UNCHANGED namespace

\* BaseTask.cli_main: library.get_experiment(name) and, when it returns
\* None, library.add_experiment(name) with Experiment.new, whose first
\* os.mkdir raises when the folder is there.
get_or_create(n) ==
  /\ UNCHANGED notLib
  /\ "library" \in namespace
  /\ IF get_experiment(libraries[1], n) # 0
     THEN /\ llast' = LOp("get_or_create", n, TRUE, get_experiment(libraries[1], n))
          /\ UNCHANGED <<storage, libraries, nobj>>
     ELSE IF storage[n].exists
     THEN /\ llast' = LOp("get_or_create", n, FALSE, 0)
          /\ UNCHANGED <<storage, libraries, nobj>>
     ELSE /\ storage' = [storage EXCEPT ![n] = Skeleton]
          /\ libraries' = [libraries EXCEPT ![1] =
               [m \in DOMAIN @ \cup {n} |->
                  IF m = n THEN Object(nobj + 1, n) ELSE @[m]]]
          /\ nobj' = nobj + 1
          /\ llast' = LOp("get_or_create", n, TRUE, nobj + 1)
  /\ UNCHANGED namespace

\* Experiment(path) called on a folder of the storage path.
Experiment_on(n) ==
  /\ UNCHANGED notLib
  /\ storage[n].exists
  /\ llast' = LOp("Experiment", n, Experiment_init(storage[n]), 0)
  /\ UNCHANGED <<storage, namespace, libraries, nobj>>

Next ==
  \/ mkdir /\ UNCHANGED twin
  \/ \E h \in Handles, a \in CreateArgs : create(h, a) /\ UNCHANGED twin
  \/ \E h \in Handles : load(h) /\ UNCHANGED twin
  \/ \E h \in Handles : train_storage(h) /\ UNCHANGED twin
  \/ \E h \in Handles : val_storage(h) /\ UNCHANGED twin
  \/ \E h \in Handles : test_storage(h) /\ UNCHANGED twin
  \/ \E h \in Handles : custom_storage(h) /\ UNCHANGED twin
  \/ \E h \in Handles : enter(h) /\ UNCHANGED twin
  \/ \E h \in Handles, b \in Buckets : with_storage(h, b) /\ UNCHANGED twin
  \/ \E h \in Handles, k \in Keys, a \in Atoms : store(h, k, a) /\ UNCHANGED twin
  \/ \E h \in Handles, k \in Keys, a \in Atoms : append(h, k, a) /\ UNCHANGED twin
  \/ \E h \in Handles, r \in Bools : exit(h, r) /\ UNCHANGED twin
  \/ \E h \in Handles, f \in Assets : register_model_file(h, f) /\ UNCHANGED twin
  \/ \E h \in Handles, f \in Assets : save_model(h, f) /\ UNCHANGED twin
  \/ \E h \in Handles : reset_begin(h) /\ UNCHANGED twin
  \/ \E h \in Handles, f \in Assets \cup {DataFile} : reset_remove(h, f) /\ UNCHANGED twin
  \/ \E h \in Handles : reset_serialize(h) /\ UNCHANGED twin

Spec == Init /\ [][Next]_vars

NextExp ==
  \/ \E e \in Instances : Experiment(e) /\ UNCHANGED twin /\ UNCHANGED cliVars /\ UNCHANGED <<libVars, impVars, uidVars>>
  \/ \E e \in Instances : LocalView(e) /\ UNCHANGED cliVars /\ UNCHANGED <<libVars, impVars, uidVars>>
  \/ \E to \in {"modified"} : edit(Script, to) /\ UNCHANGED cliVars /\ UNCHANGED <<libVars, impVars, uidVars>>
  \/ \E e \in Instances, m \in {"initial"} : commit(e, m) /\ UNCHANGED cliVars /\ UNCHANGED <<libVars, impVars, uidVars>>
  \/ \E e \in Instances : synchronize(e) /\ UNCHANGED cliVars /\ UNCHANGED <<libVars, impVars, uidVars>>
  \/ \E e \in Instances, t \in Times, n \in DrawSet : begin_snapshot(e, t, n) /\ UNCHANGED cliVars /\ UNCHANGED <<libVars, impVars, uidVars>>
  \/ \E e \in Instances, n \in DrawSet : create_retry(e, n) /\ UNCHANGED twin /\ UNCHANGED cliVars /\ UNCHANGED <<libVars, impVars, uidVars>>
  \/ \E e \in Instances : create_snapshot(e) /\ UNCHANGED twin /\ UNCHANGED cliVars /\ UNCHANGED <<libVars, impVars, uidVars>>

SpecExp == Init /\ [][NextExp]_vars

\* One process runs the script in the local directory, which the user edits
\* and may have made a git repository beforehand.
Statuses == {"untracked", "modified", "deleted"}
NextRun ==
  \/ git_init /\ UNCHANGED cliVars /\ UNCHANGED <<libVars, impVars, uidVars>>
  \/ LocalView(Founder) /\ UNCHANGED cliVars /\ UNCHANGED <<libVars, impVars, uidVars>>
  \/ LocalView_error(Founder) /\ UNCHANGED cliVars /\ UNCHANGED <<libVars, impVars, uidVars>>
  \/ \E p \in Paths, to \in Statuses : edit(p, to) /\ UNCHANGED cliVars /\ UNCHANGED <<libVars, impVars, uidVars>>
  \/ \E m \in Messages : commit(Founder, m) /\ UNCHANGED cliVars /\ UNCHANGED <<libVars, impVars, uidVars>>
  \/ synchronize(Founder) /\ UNCHANGED cliVars /\ UNCHANGED <<libVars, impVars, uidVars>>
  \/ \E t \in Times, n \in DrawSet : begin_snapshot(Founder, t, n) /\ UNCHANGED cliVars /\ UNCHANGED <<libVars, impVars, uidVars>>
  \/ \E n \in DrawSet : create_retry(Founder, n) /\ UNCHANGED twin /\ UNCHANGED cliVars /\ UNCHANGED <<libVars, impVars, uidVars>>
  \/ create_snapshot(Founder) /\ UNCHANGED twin /\ UNCHANGED cliVars /\ UNCHANGED <<libVars, impVars, uidVars>>

SpecRun == Init /\ [][NextRun]_vars

\* The script is run from the command line, one command after the other,
\* in a local directory that the user edits and may commit by hand.
Sources == {Script, Util}
NextCli ==
  \/ git_init /\ UNCHANGED cliVars /\ UNCHANGED <<libVars, impVars, uidVars>>
  \/ user_commit /\ UNCHANGED <<libVars, impVars, uidVars>>
  \/ LocalView(Founder) /\ UNCHANGED cliVars /\ UNCHANGED <<libVars, impVars, uidVars>>
  \/ \E p \in Sources, to \in Statuses : edit(p, to) /\ UNCHANGED cliVars /\ UNCHANGED <<libVars, impVars, uidVars>>
  \/ \E m \in Messages, flag \in TrainFlags : cli_train(Founder, m, flag) /\ UNCHANGED <<libVars, impVars, uidVars>>
  \/ train_synchronize(Founder) /\ UNCHANGED <<libVars, impVars, uidVars>>
  \/ \E t \in Times, n \in DrawSet : train_begin_snapshot(Founder, t, n) /\ UNCHANGED <<libVars, impVars, uidVars>>
  \/ \E n \in DrawSet : train_create_retry(Founder, n) /\ UNCHANGED <<libVars, impVars, uidVars>>
  \/ train_create_snapshot(Founder) /\ UNCHANGED <<libVars, impVars, uidVars>>
  \/ train(Founder) /\ UNCHANGED <<libVars, impVars, uidVars>>
  \/ \E ignore \in BOOLEAN : cli_test(Founder, ignore) /\ UNCHANGED <<libVars, impVars, uidVars>>
  \/ \E ignore \in BOOLEAN : cli_eval(Founder, ignore) /\ UNCHANGED <<libVars, impVars, uidVars>>

SpecCli == Init /\ [][NextCli]_vars

\* The folders of the storage path are made by other programs or by
\* earlier processes; one process imports the library and asks it for
\* experiments.
NextLib ==
  \/ \E n \in ExpNames, d \in Layouts : make_folder(n, d) /\ UNCHANGED impVars
  \/ import_library /\ UNCHANGED impVars
  \/ Library_by_name /\ UNCHANGED impVars
  \/ Library_by_class /\ UNCHANGED impVars
  \/ \E n \in ExpNames : get_or_create(n) /\ UNCHANGED impVars
  \/ \E n \in ExpNames : Experiment_on(n) /\ UNCHANGED impVars

SpecLib == Init /\ [][NextLib]_vars

\* One process makes snapshots of the script and imports the task of a
\* snapshot, its own or one that is not in its index.
Foreign ==
  [sid |-> <<"z", "z", "z", "z", "z">>, timestamp |-> "20190926-123819", comment |-> "initial",
   hexsha |-> 1, filename |-> CallFile]
Known(e) == {snapshots[e][i] : i \in 1..Len(snapshots[e])}
NextImport ==
  \/ LocalView(Founder) /\ UNCHANGED <<cliVars, libVars, impVars, uidVars>>
  \/ edit(Script, "modified") /\ UNCHANGED <<cliVars, libVars, impVars, uidVars>>
  \/ \E m \in Messages : commit(Founder, m) /\ UNCHANGED <<cliVars, libVars, impVars, uidVars>>
  \/ synchronize(Founder) /\ UNCHANGED <<cliVars, libVars, impVars, uidVars>>
  \/ \E t \in Times, n \in DrawSet : begin_snapshot(Founder, t, n) /\ UNCHANGED <<cliVars, libVars, impVars, uidVars>>
  \/ \E n \in DrawSet : create_retry(Founder, n) /\ UNCHANGED <<twin, cliVars, libVars, impVars, uidVars>>
  \/ create_snapshot(Founder) /\ UNCHANGED <<twin, cliVars, libVars, impVars, uidVars>>
  \/ \E snap \in Known(Founder) \cup {Foreign} : import_snapshot(Founder, snap)
  \/ \E raises \in BOOLEAN : import_module(Founder, raises)
  \/ import_return(Founder)

SpecImport == Init /\ [][NextImport]_vars

\* One process makes snapshot after snapshot.  random.randint draws every
\* number of its range again and again, and the process is not stopped inside
\* Snapshot.create: a turn of the loop that stays possible is taken.
Space == {generate_id(number) : number \in DrawSet}
alloc_retry(number) ==
  create_retry(Founder, number) /\ UNCHANGED <<twin, cliVars, libVars, impVars, uidVars>>
alloc_return ==
  create_snapshot(Founder) /\ UNCHANGED <<twin, cliVars, libVars, impVars, uidVars>>
NextAlloc ==
  \/ LocalView(Founder) /\ UNCHANGED <<cliVars, libVars, impVars, uidVars>>
  \/ edit(Script, "modified") /\ UNCHANGED <<cliVars, libVars, impVars, uidVars>>
  \/ \E m \in Messages : commit(Founder, m) /\ UNCHANGED <<cliVars, libVars, impVars, uidVars>>
  \/ synchronize(Founder) /\ UNCHANGED <<cliVars, libVars, impVars, uidVars>>
  \/ \E t \in Times, n \in DrawSet : begin_snapshot(Founder, t, n) /\ UNCHANGED <<cliVars, libVars, impVars, uidVars>>
  \/ \E n \in DrawSet : alloc_retry(n)
  \/ alloc_return
FairDraws ==
  /\ \A n \in DrawSet : WF_vars(alloc_retry(n))
  /\ WF_vars(alloc_return)

SpecAlloc == Init /\ [][NextAlloc]_vars /\ FairDraws

\* One process makes snapshots while the clock advances: get_datetime returns
\* the second in which Snapshot.create runs, never an earlier one than a
\* snapshot of the list carries.
Clock == <<"20190926-123819", "20190926-123820">>
Moment(t) == CHOOSE i \in 1..Len(Clock) : Clock[i] = t
get_datetime(e, t) ==
  /\ t \in {Clock[i] : i \in 1..Len(Clock)}
  /\ \A snap \in Known(e) : Moment(snap.timestamp) <= Moment(t)
NextClock ==
  \/ LocalView(Founder) /\ UNCHANGED <<cliVars, libVars, impVars, uidVars>>
  \/ edit(Script, "modified") /\ UNCHANGED <<cliVars, libVars, impVars, uidVars>>
  \/ \E m \in Messages : commit(Founder, m) /\ UNCHANGED <<cliVars, libVars, impVars, uidVars>>
  \/ synchronize(Founder) /\ UNCHANGED <<cliVars, libVars, impVars, uidVars>>
  \/ \E i \in 1..Len(Clock), n \in DrawSet :
       get_datetime(Founder, Clock[i]) /\ begin_snapshot(Founder, Clock[i], n)
         /\ UNCHANGED <<cliVars, libVars, impVars, uidVars>>
  \/ \E n \in DrawSet : alloc_retry(n)
  \/ alloc_return

SpecClock == Init /\ [][NextClock]_vars

\* Two processes generate identifiers, each from the number drawn for it.
InitUid ==
  /\ InitState
  /\ drawn \in [Instances -> Numbers]
  /\ uid = [e \in Instances |-> NoUid]
NextUid ==
  \/ \E e \in Instances, n \in Numbers : randint(e, n)
  \/ \E e \in Instances : generate(e)

SpecUid == InitUid /\ [][NextUid]_vars

\* One process creates the snapshot and writes to it, with names of both
\* types and several file names; another process loads the directory.
NextWriter ==
  \/ mkdir /\ UNCHANGED twin
  \/ \E a \in CreateArgs : create(Creator, a) /\ UNCHANGED twin
  \/ \E b \in Buckets : with_storage(Creator, b) /\ UNCHANGED twin
  \/ \E k \in Names, a \in Atoms : store(Creator, k, a) /\ UNCHANGED twin
  \/ \E k \in Names, a \in Atoms : append(Creator, k, a) /\ UNCHANGED twin
  \/ \E r \in Bools : exit(Creator, r) /\ UNCHANGED twin
  \/ \E f \in Filenames : register_model_file(Creator, f) /\ UNCHANGED twin
  \/ \E h \in Handles \ {Creator} : load(h) /\ UNCHANGED twin

SpecWriter == Init /\ [][NextWriter]_vars

\* One process creates the snapshot, saves models into it, registers file
\* names and resets it; no other handle of the directory exists.
NextModel ==
  \/ mkdir /\ UNCHANGED twin
  \/ \E a \in CreateArgs : create(Creator, a) /\ UNCHANGED twin
  \/ \E f \in Filenames : save_model(Creator, f) /\ UNCHANGED twin
  \/ \E f \in Filenames : register_model_file(Creator, f) /\ UNCHANGED twin
  \/ reset_begin(Creator) /\ UNCHANGED twin
  \/ \E f \in Filenames \cup {DataFile} : reset_remove(Creator, f) /\ UNCHANGED twin
  \/ reset_serialize(Creator) /\ UNCHANGED twin

SpecModel == Init /\ [][NextModel]_vars

\* A durable snapshot and a DummySnapshot receive the same calls, the durable
\* one first.
Dummy == CHOOSE h \in Dummies : TRUE
Pair == {Creator, Dummy}

SameBuckets ==
  /\ \A b \in Buckets : heap[Obj(Dummy, b)] = heap[Obj(Creator, b)]
  /\ model_files[Dummy] = model_files[Creator]

Both == live[Creator] /\ live[Dummy] /\ pc[Creator] = "idle"

Turn(h, call) ==
  /\ Both
  /\ IF h = Dummy
     THEN /\ twin.phase = 1 /\ twin.call = call
          /\ twin' = [twin EXCEPT !.phase = 0]
     ELSE /\ twin.phase = 0
          /\ twin' = [phase |-> 1, call |-> call]

NextDummy ==
  \/ mkdir /\ UNCHANGED twin
  \/ \E a \in CreateArgs : create(Creator, a) /\ UNCHANGED twin
  \/ DummySnapshot(Dummy) /\ UNCHANGED twin
  \/ \E h \in Pair, b \in Buckets :
       with_storage(h, b) /\ Turn(h, <<"with_storage", b, "-">>)
  \/ \E h \in Pair, k \in Keys, a \in Atoms :
       store(h, k, a) /\ Turn(h, <<"store", k, a>>)
  \/ \E h \in Pair, k \in Keys, a \in Atoms :
       append(h, k, a) /\ Turn(h, <<"append", k, a>>)
  \/ \E r \in Bools :
       exit(Creator, r) /\ Turn(Creator, <<"exit", IF r THEN "raised" ELSE "-", "-">>)
  \/ \E r \in Bools :
       exit_dummy(Dummy, r) /\ Turn(Dummy, <<"exit", IF r THEN "raised" ELSE "-", "-">>)
  \/ \E f \in Filenames :
       register_model_file(Creator, f) /\ Turn(Creator, <<"register_model_file", f, "-">>)
  \/ \E f \in Filenames :
       register_model_file_dummy(Dummy, f) /\ Turn(Dummy, <<"register_model_file", f, "-">>)
  \/ reset_begin(Creator) /\ Turn(Creator, <<"reset", "-", "-">>)
  \/ \E f \in {DataFile} : reset_remove(Creator, f) /\ UNCHANGED twin
  \/ reset_serialize(Creator) /\ UNCHANGED twin
  \/ reset_dummy(Dummy) /\ Turn(Dummy, <<"reset", "-", "-">>)

SpecDummy == Init /\ [][NextDummy]_vars

\* ---------------------------------------------------------------- claims
WriteOps == {"exit", "register_model_file", "reset"}
Immutables(d) == [f \in ImmutableKeys |-> d[f]]
Other(h) == CHOOSE g \in Handles : g # h

\* C1: every write of the document by a handle (scope exit,
\* register_model_file, reset) is preceded by a re-read, so that a field
\* another handle changed on disk since this handle last read or wrote the
\* document, and which this handle did not change itself, is still there
\* after the write.
C1_ReloadBeforeWrite ==
  [][\A h \in Handles :
       (last'.h = h /\ last'.op \in WriteOps /\ DataFile \in dir /\ disk.valid)
         => \A f \in MutableKeys :
              (disk.data[f] # JsonDoc(known[h])[f] /\ (DocOf(h))'[f] = known[h][f])
                => (disk'.valid /\ disk'.data[f] = disk.data[f])]_vars

\* C2: every exit of a view scope, also one whose body raised, has written
\* the parent's state (as JSON) to snapshot.json, and a view is marked closed only
\* after that write succeeded.
C2_ExitSerializes ==
  last.op = "exit"
    => /\ DataFile \in dir
       /\ disk = json_dump(DocOf(last.h))
       /\ ~active[last.h]
       /\ (~views[last.h].ready => disk.valid /\ disk.data = JsonDoc(DocOf(last.h)))

C2_Witness ==
  /\ last.op = "exit" /\ last.raised /\ last.ok
  /\ ~views[last.h].ready
  /\ \E b \in Buckets : disk.data[b] # EmptyDict

\* C3: store() and append() on a view whose scope is not active fail.
C3_FailsOutsideScope ==
  (last.op \in {"store", "append"} /\ ~active[last.h]) => ~last.ok

\* C4: after a scope exit that returned, every value written with store() or
\* append() inside that scope (and not cleared by a reset since) is under its
\* key, as JSON writes the key, in the bucket of the document on disk.
C4_WritesReachDisk ==
  (last.op = "exit" /\ last.ok)
    => LET b == views[last.h].data[2]
       IN \A k \in DOMAIN written[last.h] :
            /\ JsonKey(k) \in DOMAIN disk.data[b]
            /\ disk.data[b][JsonKey(k)] = written[last.h][k]

C7_ImmutablesNeverChange ==
  /\ \A h \in Handles : live[h] => imm[h] = origin
  /\ (DataFile \in dir /\ disk.valid) => Immutables(disk.data) = origin

C7_Witness ==
  /\ last.op = "load" /\ last.ok
  /\ \E h \in Handles : gen[h] > 0
  /\ \E f \in MutableKeys : disk.data[f] # << >>

\* C8: from the first serialize on, snapshot.json is present in the
\* directory in every state, the steps inside reset() included.
C8_DocumentAlwaysPresent ==
  origin # NoneFields => DataFile \in dir

\* C9: when reset() has returned, the five mutable entries are empty in
\* memory and in the document on disk, and the immutable entries are the ones
\* the handle had when reset() was called.
C9_ResetClears ==
  (last.op = "reset" /\ last.ok)
    => LET h == last.h
       IN /\ \A b \in Buckets : heap[Obj(h, b)] = EmptyDict
          /\ model_files[h] = << >>
          /\ DataFile \in dir /\ disk.valid
          /\ \A f \in MutableKeys : disk.data[f] = << >>
          /\ imm[h] = entry[h]
          /\ Immutables(disk.data) = entry[h]
          /\ entry[h] # NoneFields

C9_Witness ==
  /\ last.op = "reset" /\ last.ok
  /\ views[last.h] # NoView
  /\ views[last.h].data[3] < gen[last.h]
  /\ heap[views[last.h].data] # EmptyDict

\* C10: reset() called twice in a row on a handle leaves the same memory,
\* document and directory as the first call left.
C10_ResetIdempotent ==
  quiet.count = 2
    => /\ DocOf(quiet.h) = quiet.data
       /\ disk = quiet.disk
       /\ dir = quiet.dir

C10_Witness ==
  /\ quiet.count = 2
  /\ views[quiet.h] # NoView
  /\ heap[views[quiet.h].data] # EmptyDict

\* C6: in every Experiment instance no two snapshots of the list share an
\* id, the set of recorded ids is exactly the ids of the list, and an id
\* handed out by the allocation was not among the recorded ids; the same holds
\* of the lines of data.json.
Distinct(list) == \A i, j \in 1..Len(list) : i # j => list[i].sid # list[j].sid

C11_RoundTrip ==
  (/\ last.op = "load" /\ last.ok
   /\ live[Other(last.h)]
   /\ disk = json_dump(DocOf(Other(last.h))))
    => \A f \in ImmutableKeys \cup MutableKeys :
         DocOf(last.h)[f] = DocOf(Other(last.h))[f]

\* C12: register_model_file(f) leaves model_files as it was with f added at
\* the end, and when it returns the document on disk holds that list; no view
\* is constructed, entered or left by it.
C12_RegisterAppends ==
  [][last'.op = "register_model_file"
       => LET h == last'.h
          IN /\ \E f \in Filenames : model_files'[h] = Append(model_files[h], f)
             /\ last'.ok => /\ DataFile \in dir' /\ disk'.valid
                            /\ disk'.data.model_files = model_files'[h]
             /\ views' = views /\ active' = active]_vars

C12_Witness ==
  /\ last.op = "register_model_file" /\ last.ok
  /\ model_files[last.h] = <<"m1", "m2">>
  /\ disk.data.model_files = <<"m1", "m2">>
  /\ views[last.h] = NoView

C14_DummyInert ==
  [][/\ last'.h \in Dummies
          => /\ root' = root /\ dir' = dir /\ disk' = disk
             /\ last'.op = "DummySnapshot"
                  => last'.ok /\ (DocOf(Dummy))' = EmptyData(NoneFields)
     /\ twin'.phase = 0 => SameBuckets']_vars


\* ---- the run of a script: commit, synchronize, create_snapshot

\* A call of make_snapshot has come to its end, by returning or by raising.
RunEnds == {"create_snapshot", "synchronize_raised", "create_raised"}
Syncs == {"synchronize", "synchronize_raised"}

\* C15: once synchronize has been called after a local commit, the latest
\* commit of the global repository is the latest commit of the local one.
C15_SyncEqualsHeads ==
  elast.op \in Syncs =>
    /\ local_repo # << >> /\ repo # << >>
    /\ repo[1].sha = local_repo[1].sha

\* C16: when the first run of a new experiment, in a local directory that
\* linking made a repository, has ended with message m, it has returned, the
\* local and the global repository hold one commit each, with message m, and
\* the experiment holds one snapshot, with comment m.
FirstRun(e) == start[e].fresh /\ start[e].first /\ start[e].local = << >>

C17_ChangeRun ==
  /\ (elast.op \in RunEnds /\ ~start[elast.e].quiet) =>
       LET e == elast.e
       IN /\ Len(local_repo) = Len(start[e].local) + 1
          /\ repo = local_repo
          /\ Len(snapshots[e]) = start[e].snaps + 1
          /\ snapshots[e][Len(snapshots[e])].hexsha = local_repo[1].sha
  /\ \A e \in Instances :
       (epc[e] = "create" /\ start[e].made) => repo = local_repo

\* C18: commit adds a commit to the local repository only when it detected
\* a change, and returns whether it did; having detected none it returns
\* false and the run goes on to create_snapshot without synchronize, both
\* repositories being as they were.
C18_CommitOnlyOnChange ==
  [][elast'.op = "commit" =>
       LET e == elast'.e
       IN /\ local_repo' # local_repo => ~start'[e].quiet
          /\ start'[e].made = (local_repo' # local_repo)
          /\ start'[e].quiet =>
               /\ ~start'[e].made
               /\ local_repo' = local_repo /\ repo' = repo /\ tree' = tree
               /\ epc'[e] = "create_snapshot"]_vars

C18_Witness ==
  /\ elast.op = "commit" /\ start[elast.e].quiet /\ ~start[elast.e].made
  /\ epc[elast.e] = "create_snapshot"
  /\ Len(local_repo) = 1 /\ repo = local_repo
  /\ start[elast.e].local = local_repo

\* C19: the detection of commit finds no change exactly when no tracked
\* path is modified or deleted and every untracked path equals an excluded
\* entry or starts with one.
Excluded(p) == \E ex \in EXCLUDE : p = ex \/ startswith(p, ex)

C19_Detection ==
  [][elast'.op = "commit" =>
       (start'[elast'.e].quiet =
          /\ ~\E p \in Paths : tree[p] \in {"modified", "deleted"}
          /\ \A p \in Paths : tree[p] = "untracked" => Excluded(p))]_vars

C19_Witness ==
  /\ elast.op = "commit" /\ start[elast.e].quiet
  /\ tree[Cache] = "untracked" /\ tree[Ignore] = "untracked"
  /\ tree[Script] = "clean"

\* C20: synchronize leaves the local repository and the working tree as they
\* were and, when it returns, has made the global repository equal to the
\* local one it pulled from; the local repository only ever changes by a
\* commit put on top of it.
C20_SyncOnlyGlobal ==
  [][/\ elast'.op \in Syncs =>
          /\ local_repo' = local_repo /\ tree' = tree
          /\ local_git' = local_git /\ remotes' = remotes
          /\ snapshots' = snapshots /\ data_json' = data_json
     /\ elast'.op = "synchronize" =>
          /\ remotes # << >> /\ remotes[1] = "local"
          /\ repo' = local_repo
     /\ local_repo' # local_repo =>
          /\ elast'.op = "commit"
          /\ Len(local_repo') = Len(local_repo) + 1
          /\ SubSeq(local_repo', 2, Len(local_repo')) = local_repo]_vars

C20_Witness ==
  /\ elast.op = "synchronize"
  /\ Len(local_repo) = 2 /\ repo = local_repo
  /\ start[elast.e].repo # repo


\* ---- the commands of the script

\* The process of e begins the command cmd in this step.
CliBegins(e, cmd) ==
  task[e].phase \in Done /\ task'[e] # task[e] /\ task'[e].cmd = cmd

\* The step leaves the snapshot list, its file and both repositories alone.
SameHistory ==
  /\ snapshots' = snapshots /\ data_json' = data_json
  /\ local_repo' = local_repo /\ repo' = repo

\* C21: a train command without --retrain and --force that finds no change
\* returns at once: no commit, no snapshot, the list of snapshots, their
\* entries and both repositories as they were.
C21_NoChangeNoFlag ==
  [][\A e \in Instances :
       (CliBegins(e, "train") /\ ~should_commit(tree) /\ task'[e].flag = "") =>
         /\ task'[e].phase = "returned" /\ epc'[e] = "idle"
         /\ SameHistory /\ content' = content /\ tree' = tree]_vars

C21_Witness ==
  /\ elast.op = "cli_train"
  /\ task[elast.e].flag = "" /\ task[elast.e].phase = "returned"
  /\ Len(snapshots[elast.e]) = 1 /\ content = <<"filled">>
  /\ repo = local_repo /\ Len(repo) = 1

\* C22: a train command with --retrain that finds no change and a last
\* snapshot makes that snapshot the task's and clears its entries, leaving
\* the number of snapshots and both repositories as they were; the training
\* that follows fills that same snapshot.
C22_Retrain ==
  [][\A e \in Instances :
       /\ (/\ CliBegins(e, "train") /\ ~should_commit(tree)
           /\ task'[e].flag = "--retrain" /\ snapshots[e] # << >>) =>
             /\ task'[e].phase = "ready"
             /\ task'[e].snapshot = Len(snapshots[e])
             /\ content' = [content EXCEPT ![Len(snapshots[e])] = "empty"]
             /\ SameHistory /\ epc'[e] = "idle"
       /\ (/\ elast'.op = "train" /\ elast'.e = e
           /\ task[e].flag = "--retrain" /\ ~task[e].changed) =>
             /\ content[task[e].snapshot] = "empty"
             /\ task'[e].snapshot = task[e].snapshot
             /\ content' = [content EXCEPT ![task[e].snapshot] = "filled"]
             /\ SameHistory
             /\ Len(snapshots[e]) = Len(task[e].at.snapshots)]_vars

C22_Witness ==
  /\ elast.op = "train"
  /\ task[elast.e].flag = "--retrain" /\ task[elast.e].snapshot = 2
  /\ task[elast.e].at.content = <<"filled", "filled">>
  /\ content = <<"filled", "filled">>
  /\ Len(snapshots[elast.e]) = 2

\* C23: when a train command with --force that found no change has come to
\* its end, it has made one new snapshot, which refers to the latest commit
\* of the global repository, and no commit in either repository.
C23_Force ==
  \A e \in Instances :
    (/\ task[e].cmd = "train" /\ task[e].flag = "--force" /\ ~task[e].changed
     /\ elast.e = e /\ elast.op \in RunEnds) =>
       /\ task[e].phase = "ready"
       /\ Len(snapshots[e]) = Len(task[e].at.snapshots) + 1
       /\ task[e].snapshot = Len(snapshots[e])
       /\ repo # << >>
       /\ snapshots[e][Len(snapshots[e])].hexsha = repo[1].sha
       /\ repo = task[e].at.repo /\ local_repo = task[e].at.local

\* C24: test and eval run, on the last snapshot, exactly when no change is
\* found or --ignore is given; with a change and without --ignore nothing
\* runs and the task keeps the snapshot it was constructed with.
C24_TestEval ==
  [][\A e \in Instances :
       (CliBegins(e, "test") \/ CliBegins(e, "eval")) =>
         LET allowed == ~should_commit(tree) \/ task'[e].flag = "--ignore"
         IN /\ task'[e].phase = "ran" =>
                 /\ allowed
                 /\ snapshots[e] # << >>
                 /\ task'[e].snapshot = Len(snapshots[e])
            /\ (allowed /\ snapshots[e] # << >>) => task'[e].phase = "ran"
            /\ ~allowed =>
                 /\ task'[e].phase = "returned"
                 /\ task'[e].snapshot = NoTask.snapshot
            /\ SameHistory /\ content' = content]_vars

C24_Witness ==
  /\ elast.op = "cli_eval"
  /\ task[elast.e].phase = "returned" /\ task[elast.e].changed
  /\ task[elast.e].snapshot = 0
  /\ Len(snapshots[elast.e]) = 2


\* ---- the registry of experiments

\* The registry the module holds under the name library.
library == libraries[1]

\* A registered experiment is never replaced or dropped.
Kept ==
  \A n \in DOMAIN library : n \in DOMAIN library' /\ library'[n] = library[n]

\* C25 as stated: get_or_create returns the registered experiment of a known
\* name and provisions nothing; for every unknown name it provisions the
\* folders and the empty repository and registers the new experiment, which
\* has no snapshots and is what later calls return.
C25_Provisions ==
  [][llast'.op = "get_or_create" =>
       LET n == llast'.n
       IN IF n \in DOMAIN library
          THEN /\ llast'.ok /\ llast'.result = library[n].id
               /\ storage' = storage /\ libraries' = libraries
          ELSE /\ llast'.ok
               /\ storage' = [storage EXCEPT ![n] = Skeleton]
               /\ n \in DOMAIN library' /\ Kept
               /\ library'[n].id = llast'.result
               /\ library'[n].snapshots = << >>]_vars

\* C25, amended: for an unknown name the experiment is provisioned when
\* storage_path has no folder of that name; when it has one, the call raises
\* and neither the folders nor the registry change.
C25_GetOrCreate ==
  [][llast'.op = "get_or_create" =>
       LET n == llast'.n
       IN IF n \in DOMAIN library
          THEN /\ llast'.ok /\ llast'.result = library[n].id
               /\ storage' = storage /\ libraries' = libraries
          ELSE IF storage[n].exists
          THEN /\ ~llast'.ok /\ llast'.result = 0
               /\ storage' = storage /\ libraries' = libraries
          ELSE /\ llast'.ok
               /\ storage' = [storage EXCEPT ![n] = Skeleton]
               /\ n \in DOMAIN library' /\ Kept
               /\ library'[n].id = llast'.result
               /\ library'[n].id \notin {library[m].id : m \in DOMAIN library}
               /\ library'[n].snapshots = << >>]_vars

C25_Witness ==
  /\ llast.op = "get_or_create" /\ llast.ok /\ llast.n = "sandbox"
  /\ DOMAIN library = {"mnist", "sandbox"}
  /\ library["sandbox"].id = llast.result
  /\ library["mnist"].id # llast.result
  /\ storage["sandbox"] = Skeleton

\* C26: the construction of the registry never raises; it holds exactly the
\* folders of storage_path on which an Experiment can be constructed, each
\* under the name of its folder.
C26_ScanSkips ==
  llast.op = "Library" =>
    LET lib == libraries[Len(libraries)]
    IN /\ llast.ok
       /\ DOMAIN lib = {n \in ExpNames : Experiment_init(storage[n])}
       /\ \A n \in DOMAIN lib : lib[n].name = n

C26_Witness ==
  /\ llast.op = "Library" /\ llast.n = "import"
  /\ DOMAIN library = {"mnist"}
  /\ storage["sandbox"].exists /\ storage["sandbox"].repo = "none"

\* C27: an Experiment is constructed on a folder only if the folder holds
\* the repository folder and the folder of the snapshots; on a folder that
\* lacks one of them the construction raises.
C27_LayoutChecked ==
  llast.op = "Experiment" =>
    (llast.ok => storage[llast.n].repo # "none" /\ storage[llast.n].assets)

C29_UnknownSnapshot ==
  [][(ilast' # ilast /\ ilast'.op = "import_snapshot") =>
       IF ilast'.sid \in ids[ilast'.e]
       THEN ilast'.ok /\ imp'[ilast'.e].sid = ilast'.sid
       ELSE /\ ~ilast'.ok /\ ilast'.result = "None"
            /\ head' = head /\ library_import' = library_import
            /\ imported_object' = imported_object /\ sys_path' = sys_path
            /\ imp' = imp /\ repo' = repo /\ snapshots' = snapshots]_vars

C29_Witness ==
  /\ ilast.op = "import_snapshot" /\ ~ilast.ok /\ ilast.sid = Foreign.sid
  /\ Len(snapshots[ilast.e]) = 2
  /\ head = Master /\ ~library_import /\ sys_path = <<"site-packages">>


\* ---- the local repository

\* C30: linking opens a repository that is there and leaves it, its commits
\* and the remotes of the global repository as they are; only when there is
\* none does it initialize an empty one and make it a remote of the global
\* repository; when opening fails otherwise the error leaves the call, with
\* nothing initialized, no remote added and no LocalView.
C30_OpenOrInit ==
  [][/\ elast'.op = "link" =>
          /\ linked'[elast'.e]
          /\ local_repo' = local_repo /\ tree' = tree /\ repo' = repo
          /\ IF local_git = "none"
             THEN /\ local_git' = "init" /\ local_repo' = << >>
                  /\ remotes' = Append(remotes, "local")
             ELSE local_git' = local_git /\ remotes' = remotes
     /\ elast'.op = "link_raised" =>
          /\ linked' = linked
          /\ local_git' = local_git /\ local_repo' = local_repo
          /\ remotes' = remotes /\ tree' = tree /\ repo' = repo
     /\ remotes' # remotes => elast'.op = "link" /\ local_git = "none"]_vars

C30_Witness ==
  /\ elast.op = "link" /\ linked[elast.e]
  /\ local_git = "user" /\ remotes = << >>
  /\ tree[Util] = "untracked"

\* C31: the allocation of an identifier has no bound on its retries.  Under
\* fair draws a call of Snapshot.create that finds an identifier of the space
\* unused returns, and the identifier it returns was not in the index; with
\* every identifier of the space in the index, a call never returns.
C31_Allocation ==
  /\ (epc[Founder] = "create" /\ ids[Founder] # Space)
       ~> (epc[Founder] = "idle" /\ elast.op = "create_snapshot")
  /\ [][(epc[Founder] = "create" /\ ids[Founder] = Space)
          => epc'[Founder] = "create"]_vars
  /\ [][(epc[Founder] = "create" /\ epc'[Founder] = "idle")
          => (alloc[Founder].sid \notin ids[Founder]
              /\ ids'[Founder] = ids[Founder] \cup {alloc[Founder].sid})]_vars

C31_Witness ==
  /\ epc[Founder] = "create" /\ elast.op = "retry"
  /\ ids[Founder] = Space /\ Len(snapshots[Founder]) = Cardinality(Space)

\* C32: the uid generated for a drawn number has exactly N = 5 characters,
\* each a lowercase letter, the i-th being the i-th base-26 digit of the
\* number, most significant first; two different numbers give two different
\* uids.
Lowercase == {Letters[i] : i \in 1..B}
Digit(n, i) == (n \div Pow(B, N - i)) % B

C32_Uid ==
  /\ \A e \in Instances : uid[e] # NoUid =>
       /\ drawn[e] \in 0..(Pow(B, N) - 1)
       /\ Len(uid[e]) = N
       /\ \A i \in 1..N :
            /\ uid[e][i] \in Lowercase
            /\ uid[e][i] = Letters[Digit(drawn[e], i) + 1]
  /\ \A e, f \in Instances :
       (uid[e] # NoUid /\ uid[f] # NoUid /\ drawn[e] # drawn[f]) => uid[e] # uid[f]

C32_Witness ==
  /\ drawn["e1"] = Pow(B, N) - 1 /\ uid["e1"] = <<"z", "z", "z", "z", "z">>
  /\ drawn["e2"] = B /\ uid["e2"] = <<"a", "a", "a", "b", "a">>

\* C33: the timestamp of a snapshot is a function of the commit it
\* references: two snapshots of the list that reference the same commit carry
\* the same timestamp, in the list and in data.json.
C33_CommitTime ==
  /\ \A a, b \in Known(Founder) : a.hexsha = b.hexsha => a.timestamp = b.timestamp
  /\ \A i, j \in 1..Len(data_json) :
       data_json[i].hexsha = data_json[j].hexsha
         => data_json[i].timestamp = data_json[j].timestamp

\* C34: data.json lists every snapshot that an Experiment instance opened on
\* the directory holds in its list, whichever instance created it, and two
\* snapshots of the instances with one id are one snapshot.
C34_NoLostSnapshot ==
  /\ \A e \in Instances : \A snap \in Known(e) :
       \E i \in 1..Len(data_json) : data_json[i] = snap
  /\ \A e, f \in Instances : \A a \in Known(e), b \in Known(f) :
       a.sid = b.sid => a = b

\* C35: whenever make_snapshot is about to call synchronize, after a local
\* commit, the global repository has a remote and its first remote is the
\* local repository, whether linking initialized the local repository or
\* found it.
C35_RemoteLinked ==
  \A e \in Instances :
    epc[e] = "synchronize" => (remotes # << >> /\ remotes[1] = "local")

\* C36: right after a run has made a commit, whatever it committed (a
\* modified file, a new untracked file, a deleted tracked file), the detection
\* of commit finds no change in the working tree, so that a run started then
\* makes no commit.
C36_CleanAfterCommit ==
  [][(elast'.op = "commit" /\ local_repo' # local_repo)
       => (~is_changed(tree') /\ ~has_untracked(tree'))]_vars

\* C37: whenever no call of import_snapshot is under way, whether the last
\* one returned the task or raised, HEAD of the global repository refers to
\* the head of master, sys.path is the one of before the call, and the
\* library-import flag and the registered instance are cleared.
C37_ImportRestores ==
  (\A e \in Instances : imp[e].pc = "idle") =>
     /\ head = Master
     /\ sys_path = <<"site-packages">>
     /\ ~library_import
     /\ imported_object = "None"

\* C38 as claimed: between the operations of the single handle of a
\* snapshot, each filename listed in model_files names a file present in the
\* snapshot directory.
Present(list) == \A i \in 1..Len(list) : list[i] \in dir

C38_ModelFilesPresent ==
  (live[Creator] /\ pc[Creator] = "idle") => Present(model_files[Creator])

\* C38 as amended: every operation of the single handle keeps the filenames
\* of model_files present in the directory, save_model and reset among them,
\* except a call of register_model_file with a name of no file of the
\* directory.
Unwritten ==
  /\ last'.op = "register_model_file"
  /\ \E f \in Filenames \ dir :
       model_files'[Creator] = Append(model_files[Creator], f)

C38_SaveAndReset ==
  [][(Present(model_files[Creator]) /\ ~Unwritten)
       => (Present(model_files[Creator]))']_vars

C38_Witness ==
  /\ last.op = "save_model" /\ last.h = Creator
  /\ model_files[Creator] = <<"m1", "m2">>
  /\ {"m1", "m2"} \subseteq dir

\* C39: when a train command that found a change has come to its end,
\* whatever flag it was given (--retrain among them), it has made one commit
\* and one new snapshot, which is the task's, and the snapshots that existed
\* before are as they were, in the list and in their entries.
C39_NoResetOnChange ==
  \A e \in Instances :
    (/\ task[e].cmd = "train" /\ task[e].changed
     /\ elast.e = e /\ elast.op \in RunEnds) =>
       /\ task[e].phase = "ready"
       /\ Len(local_repo) = Len(task[e].at.local) + 1
       /\ snapshots[e] # << >>
       /\ SubSeq(snapshots[e], 1, Len(snapshots[e]) - 1) = task[e].at.snapshots
       /\ task[e].snapshot = Len(snapshots[e])
       /\ content = Append(task[e].at.content, "empty")

====
